---- MODULE Spec2Model ----
(***************************************************************************)
(* Model of the Uplift sample API app: the retrying API client (api.js,    *)
(* the file carrying createExportJob / getJobStatus / getJobResults with   *)
(* their 504 retry), the Node.js app (nodejs/app.js: checkJobStatus,       *)
(* handleDataExport, handleExportProcess) and the CSV sink                 *)
(* (nodejs/file.js: writeCsvFile).                                         *)
(*                                                                         *)
(* JavaScript runs one continuation at a time, so a step of the model is   *)
(* what happens between two awaits: the transport answering the request    *)
(* in flight, a timer firing, or the caller of a settled API call going on *)
(* to its next await.                                                      *)
(*                                                                         *)
(* app.js imports the page fetch under the name getJobResult while the     *)
(* client exports it as getJobResults; the model binds the call of app.js  *)
(* line 70 to getJobResults.                                               *)
(***************************************************************************)
EXTENDS Integers, Sequences, FiniteSets, TLC

VARIABLES
    exec,         \* the API call in progress: one invocation of the client
    pc,           \* the await the app is suspended on
    category,     \* index of the for loop of handleExportProcess
    jobId,        \* handleExportProcess: const jobId ("": none yet / missing)
    status,       \* checkJobStatus: let status
    offset,       \* handleDataExport: offset
    limit,        \* handleDataExport: limit
    athleteId,    \* handleDataExport: let athleteId
    sessionId,    \* handleDataExport: let sessionId
    rowsToWrite,  \* handleDataExport: let rowsToWrite
    error,        \* the error handleExportProcess rejected with
    dirs,         \* the sink: athlete folders under ./data
    files,        \* the sink: lines of each session file
    svcResults,   \* the service: result set of each job
    svcDone,      \* the service: jobs it has reported COMPLETED
    polls,        \* history: getJobStatus calls made for the current job
    fetches,      \* history: getJobResult calls made for the current job
    flushes,      \* history: writeCsvFile calls of the run
    trace,        \* history: what the app did for the current job, in order
    earlier504,   \* history: while an API call of the app is in progress,
                  \* the 504 answers retried by the call made before it for
                  \* the same job; 0 otherwise
    demoTrace     \* history: what dataExportDemo.js did in the current
                  \* getExportData call, in order

appVars  == <<pc, category, jobId, status, offset, limit, athleteId, sessionId,
              rowsToWrite, error>>
sinkVars == <<dirs, files>>
svcVars  == <<svcResults, svcDone>>
histVars == <<polls, fetches, flushes, trace, earlier504, demoTrace>>
vars     == <<exec, appVars, sinkVars, svcVars, histVars>>

(***************************************************************************)
(* Bounds of the model.                                                    *)
(***************************************************************************)
\* Rows the service holds, all jobs of a run together.
MaxRows == 3
\* Page size the app asks for; stands for limit = 500 (app.js line 157).
PageLimit == 2
\* The service answers RUNNING to a job's poll only while fewer than
\* MaxPolls polls of that job have been made.
MaxPolls == 3
\* Largest maxRetries argument a direct caller of the client passes.
MaxRetriesArg == 3

(***************************************************************************)
(* Program constants.                                                      *)
(***************************************************************************)
DefaultMaxRetries == 3
DefaultRetryDelay == 2000
PollIntervalMs == 5000
PacingMs == 1000

categories ==
    << [activity |-> "baseball", movement |-> "hitting"],
       [activity |-> "baseball", movement |-> "pitching"] >>

\* The jobId the service gives the job of the c-th category.
JobIdOf(c) == "job" \o ToString(c)
JobIds == {JobIdOf(c) : c \in 1..Len(categories)}

(***************************************************************************)
(* Values.  JavaScript's undefined and null are the strings "undefined"    *)
(* and "null"; a missing jobId is the empty string.                        *)
(***************************************************************************)
Truthy(v) == v \notin {"", "null", "undefined"}

Athletes == {"A", "B"}
Sessions == {"S1", "S2"}
RowKeys == { <<"A", "S1">>, <<"A", "S2">>, <<"B", "S2">> }
\* data/<athleteId>/session_<sessionId>.csv
FileKeys == (Athletes \cup {"null"}) \X (Sessions \cup {"null"})

\* What an API call resolves to: response.data.jobId, response.data.status
\* or response.data ({rows}), the other fields left at their defaults.
NoValue == [jobId |-> "", status |-> "undefined", present |-> FALSE, rows |-> <<>>]
NoError == [kind |-> "none", status |-> 0, message |-> ""]

HttpErrors == {400, 401, 403, 404, 429, 500, 503, 504}
\* An axios error: with a response (kind "http") or without one.
Failures == {[kind |-> "http", status |-> s, message |-> "Request failed"] : s \in HttpErrors}
               \cup {[kind |-> "network", status |-> 0, message |-> "Network Error"]}

RECURSIVE Pow2(_)
Pow2(n) == IF n <= 0 THEN 1 ELSE 2 * Pow2(n - 1)

RECURSIVE SumLen(_, _)
SumLen(f, S) ==
    IF S = {} THEN 0
    ELSE LET j == CHOOSE x \in S : TRUE IN Len(f[j]) + SumLen(f, S \ {j})

(***************************************************************************)
(* The API client.                                                         *)
(***************************************************************************)
\* default: console.error(`Error ${error.response.status}:`, ...)
DefaultMessage == [s \in HttpErrors |-> "Error " \o ToString(s) \o ":"]

\* handleError: the message it logs with console.error.
handleError(err) ==
    IF err.kind = "http"
    THEN CASE err.status = 400 -> "Bad Request: Please check the job ID or request parameters."
           [] err.status = 401 -> "Unauthorized: Check your authorization token."
           [] err.status = 403 -> "Forbidden: You do not have access to this resource."
           [] err.status = 404 -> "Not Found: The specified job ID does not exist or has no results."
           [] err.status = 429 -> "Too Many Requests: You are being rate limited. Try again later."
           [] err.status = 500 -> "Internal Server Error: Something went wrong on the server."
           [] OTHER -> DefaultMessage[err.status]
    ELSE "Error:"

\* An invocation that has issued its first request: retryCount = 0 and
\* makeRequest() has called axios.  calls, waits and handled record the
\* transport calls made, the backoff delays waited and the messages
\* handleError logged in this invocation, failures the errors its catch
\* block received; reported, that the missing jobId was logged.
Invocation(op, job, off, lim, maxRetries, retryDelay) ==
    [op |-> op, jobId |-> job, offset |-> off, limit |-> lim,
     maxRetries |-> maxRetries, retryDelay |-> retryDelay,
     retryCount |-> 0, state |-> "request", calls |-> 1,
     waits |-> <<>>, handled |-> <<>>, failures |-> <<>>, reported |-> FALSE,
     value |-> NoValue, error |-> NoError]

createExportJob(maxRetries, retryDelay) ==
    Invocation("create", "", 0, 0, maxRetries, retryDelay)

\* if (!jobId) { console.log(...); return; }
getJobStatus(job, maxRetries, retryDelay) ==
    IF ~Truthy(job)
    THEN [Invocation("status", job, 0, 0, maxRetries, retryDelay)
              EXCEPT !.state = "returned", !.calls = 0, !.reported = TRUE]
    ELSE Invocation("status", job, 0, 0, maxRetries, retryDelay)

\* Mutant: the test of jobId left out, the request sent whatever jobId is.
getJobResultsNoGuard(job, off, lim, maxRetries, retryDelay) ==
    Invocation("results", job, off, lim, maxRetries, retryDelay)

getJobResults(job, off, lim, maxRetries, retryDelay) ==
    IF ~Truthy(job)
    THEN [Invocation("results", job, off, lim, maxRetries, retryDelay)
              EXCEPT !.state = "returned", !.calls = 0, !.reported = TRUE]
    ELSE Invocation("results", job, off, lim, maxRetries, retryDelay)

\* Mutant: retryCount <= maxRetries, one retry too many.
createExportJobCatchOffByOne(e, err) ==
    IF err.kind = "http" /\ err.status = 504 /\ e.retryCount <= e.maxRetries
    THEN [e EXCEPT !.retryCount = @ + 1,
                   !.waits = Append(@, e.retryDelay * Pow2((e.retryCount + 1) - 1)),
                   !.failures = Append(@, err),
                   !.state = "backoff"]
    ELSE [e EXCEPT !.handled = Append(@, handleError(err)),
                   !.failures = Append(@, err),
                   !.error = err,
                   !.state = "thrown"]

\* createExportJob.makeRequest, the catch block.
createExportJobCatch(e, err) ==
    IF err.kind = "http" /\ err.status = 504 /\ e.retryCount < e.maxRetries
    THEN [e EXCEPT !.retryCount = @ + 1,
                   !.waits = Append(@, e.retryDelay * Pow2((e.retryCount + 1) - 1)),
                   !.failures = Append(@, err),
                   !.state = "backoff"]
    ELSE [e EXCEPT !.handled = Append(@, handleError(err)),
                   !.failures = Append(@, err),
                   !.error = err,
                   !.state = "thrown"]

\* Mutant: the delay announced in the log line (retryDelay), not doubled.
getJobStatusCatchFixedDelay(e, err) ==
    IF err.kind = "http" /\ err.status = 504 /\ e.retryCount < e.maxRetries
    THEN [e EXCEPT !.retryCount = @ + 1,
                   !.waits = Append(@, e.retryDelay),
                   !.failures = Append(@, err),
                   !.state = "backoff"]
    ELSE [e EXCEPT !.handled = Append(@, handleError(err)),
                   !.failures = Append(@, err),
                   !.error = err,
                   !.state = "thrown"]

\* Mutant: handleError called on every caught error, the retried ones too.
getJobStatusCatchLogsAll(e, err) ==
    IF err.kind = "http" /\ err.status = 504 /\ e.retryCount < e.maxRetries
    THEN [e EXCEPT !.retryCount = @ + 1,
                   !.waits = Append(@, e.retryDelay * Pow2((e.retryCount + 1) - 1)),
                   !.handled = Append(@, handleError(err)),
                   !.failures = Append(@, err),
                   !.state = "backoff"]
    ELSE [e EXCEPT !.handled = Append(@, handleError(err)),
                   !.failures = Append(@, err),
                   !.error = err,
                   !.state = "thrown"]

\* getJobStatus.makeRequest, the catch block.
getJobStatusCatch(e, err) ==
    IF err.kind = "http" /\ err.status = 504 /\ e.retryCount < e.maxRetries
    THEN [e EXCEPT !.retryCount = @ + 1,
                   !.waits = Append(@, e.retryDelay * Pow2((e.retryCount + 1) - 1)),
                   !.failures = Append(@, err),
                   !.state = "backoff"]
    ELSE [e EXCEPT !.handled = Append(@, handleError(err)),
                   !.failures = Append(@, err),
                   !.error = err,
                   !.state = "thrown"]

\* Mutant: every 5xx answer retried.
getJobResultsCatchRetries5xx(e, err) ==
    IF err.kind = "http" /\ err.status >= 500 /\ e.retryCount < e.maxRetries
    THEN [e EXCEPT !.retryCount = @ + 1,
                   !.waits = Append(@, e.retryDelay * Pow2((e.retryCount + 1) - 1)),
                   !.failures = Append(@, err),
                   !.state = "backoff"]
    ELSE [e EXCEPT !.handled = Append(@, handleError(err)),
                   !.failures = Append(@, err),
                   !.error = err,
                   !.state = "thrown"]

\* getJobResults.makeRequest, the catch block.
getJobResultsCatch(e, err) ==
    IF err.kind = "http" /\ err.status = 504 /\ e.retryCount < e.maxRetries
    THEN [e EXCEPT !.retryCount = @ + 1,
                   !.waits = Append(@, e.retryDelay * Pow2((e.retryCount + 1) - 1)),
                   !.failures = Append(@, err),
                   !.state = "backoff"]
    ELSE [e EXCEPT !.handled = Append(@, handleError(err)),
                   !.failures = Append(@, err),
                   !.error = err,
                   !.state = "thrown"]

\* return response.data.jobId / response.data.status / response.data
makeRequestReturn(e, value) == [e EXCEPT !.value = value, !.state = "returned"]

\* await delay(backoffDelay) is over: return makeRequest() calls axios again.
\* Mutant: the retry asks for the page after the one that failed.
makeRequestRetryNextPage(e) ==
    [e EXCEPT !.state = "request", !.calls = @ + 1, !.offset = @ + e.limit]

makeRequestRetry(e) == [e EXCEPT !.state = "request", !.calls = @ + 1]

(***************************************************************************)
(* The remote service and the transport.                                   *)
(***************************************************************************)
StatusValues == {"COMPLETED", "FAILED", "CANCELED", "RUNNING", "PENDING", "undefined"}

KeySeqs(n) == UNION {[1..k -> RowKeys] : k \in 0..n}

\* Rows of a result set; rowid numbers the rows of the whole run.
MkRows(keys, base) ==
    [i \in 1..Len(keys) |->
        [athleteid |-> keys[i][1], sessionid |-> keys[i][2], rowid |-> ToString(base + i)]]

RowsHeld == SumLen(svcResults, JobIds)

Min(a, b) == IF a <= b THEN a ELSE b

\* GET /job/{jobId}/results?offset&limit: rows [offset, offset + limit).
PageOf(job, off, lim) ==
    IF job \in svcDone
    THEN SubSeq(svcResults[job], off + 1, Min(off + lim, Len(svcResults[job])))
    ELSE <<>>

\* POST: the service creates the job of the category being exported, or
\* answers without a jobId.
RespondCreate ==
    /\ exec.op = "create" /\ exec.state = "request"
    /\ \/ \E j \in {"", JobIdOf(category)} :
             exec' = makeRequestReturn(exec, [NoValue EXCEPT !.jobId = j])
       \/ \E err \in Failures : exec' = createExportJobCatch(exec, err)
    /\ earlier504' = (IF exec'.state = "backoff" THEN earlier504 ELSE 0)
    /\ UNCHANGED demoTrace
    /\ UNCHANGED <<appVars, sinkVars, svcVars, polls, fetches, flushes, trace>>

\* GET /job/{jobId}: any status; the result set exists from the first
\* COMPLETED answer on.
RespondStatus ==
    /\ exec.op = "status" /\ exec.state = "request"
    /\ \/ /\ \E s \in StatusValues \ {"COMPLETED"} :
                /\ s = "RUNNING" => polls < MaxPolls
                /\ exec' = makeRequestReturn(exec, [NoValue EXCEPT !.status = s])
          /\ UNCHANGED svcVars
       \/ /\ exec' = makeRequestReturn(exec, [NoValue EXCEPT !.status = "COMPLETED"])
          /\ IF exec.jobId \in svcDone
             THEN UNCHANGED svcVars
             ELSE /\ svcDone' = svcDone \cup {exec.jobId}
                  /\ \E keys \in KeySeqs(MaxRows - RowsHeld) :
                        svcResults' = [svcResults EXCEPT ![exec.jobId] = MkRows(keys, RowsHeld)]
       \/ /\ \E err \in Failures : exec' = getJobStatusCatch(exec, err)
          /\ UNCHANGED svcVars
    /\ earlier504' = (IF exec'.state = "backoff" THEN earlier504 ELSE 0)
    /\ UNCHANGED demoTrace
    /\ UNCHANGED <<appVars, sinkVars, polls, fetches, flushes, trace>>

\* GET /job/{jobId}/results: the page, or a response without a body.
RespondResults ==
    /\ exec.op = "results" /\ exec.state = "request"
    /\ \/ exec' = makeRequestReturn(exec,
                     [NoValue EXCEPT !.present = TRUE,
                                     !.rows = PageOf(exec.jobId, exec.offset, exec.limit)])
       \/ exec' = makeRequestReturn(exec, NoValue)
       \/ \E err \in Failures : exec' = getJobResultsCatch(exec, err)
    /\ earlier504' = (IF exec'.state = "backoff" THEN earlier504 ELSE 0)
    /\ UNCHANGED demoTrace
    /\ UNCHANGED <<appVars, sinkVars, svcVars, polls, fetches, flushes, trace>>

\* The backoff timer of the invocation fires.
BackoffElapsed ==
    /\ exec.state = "backoff"
    /\ exec' = makeRequestRetry(exec)
    /\ UNCHANGED <<appVars, sinkVars, svcVars, histVars>>

(***************************************************************************)
(* A direct caller of the client: any arguments, one call after the other. *)
(***************************************************************************)
RetryDelays == {1000, DefaultRetryDelay}

Idle == [Invocation("none", "", 0, 0, 0, 0) EXCEPT !.state = "idle", !.calls = 0]

Settled == exec.state \in {"idle", "returned", "thrown"}

InvokeCreate ==
    /\ pc = "caller" /\ Settled
    /\ \E m \in 0..MaxRetriesArg, d \in RetryDelays : exec' = createExportJob(m, d)
    /\ UNCHANGED <<appVars, sinkVars, svcVars, histVars>>

InvokeStatus ==
    /\ pc = "caller" /\ Settled
    /\ \E j \in {"", JobIdOf(1)}, m \in 0..MaxRetriesArg, d \in RetryDelays :
          exec' = getJobStatus(j, m, d)
    /\ UNCHANGED <<appVars, sinkVars, svcVars, histVars>>

InvokeResults ==
    /\ pc = "caller" /\ Settled
    /\ \E j \in {"", JobIdOf(1)}, off \in {0, PageLimit}, m \in 0..MaxRetriesArg, d \in RetryDelays :
          exec' = getJobResults(j, off, PageLimit, m, d)
    /\ UNCHANGED <<appVars, sinkVars, svcVars, histVars>>

InitCommon ==
    /\ category = 1
    /\ jobId = ""
    /\ status = "undefined"
    /\ offset = 0
    /\ limit = PageLimit
    /\ athleteId = "null"
    /\ sessionId = "null"
    /\ rowsToWrite = <<>>
    /\ error = NoError
    /\ dirs = {}
    /\ files = [k \in FileKeys |-> <<>>]
    /\ svcResults = [j \in JobIds |-> <<>>]
    /\ svcDone = {}
    /\ polls = 0
    /\ fetches = <<>>
    /\ flushes = <<>>
    /\ earlier504 = 0
    /\ demoTrace = <<>>

\* A program that imports the client and has not called it yet.
CallerInit ==
    /\ exec = Idle
    /\ pc = "caller"
    /\ trace = <<>>
    /\ InitCommon

(***************************************************************************)
(* The sink: writeCsvFile.  fault is what the file system refuses in this  *)
(* call: "none", "mkdir", "stringify" or "append".                         *)
(***************************************************************************)
SinkFaults == {"mkdir", "stringify", "append"}

\* Object.keys(rows[0])
Columns == <<"athleteid", "sessionid", "rowid">>

CsvLine(row) == <<row.athleteid, row.sessionid, row.rowid>>

\* stringify(rows, { header: true, columns: headers })
stringify(rows) == <<Columns>> \o [i \in 1..Len(rows) |-> CsvLine(rows[i])]

\* The sink after the call, and the message of the error thrown ("none":
\* the call returned).
writeCsvFile(sink, rows, aId, sId, fault) ==
    IF aId \notin sink.dirs /\ fault = "mkdir"
    THEN [sink EXCEPT !.thrown = "Failed to create folder for athleteId: EACCES"]
    ELSE IF rows = <<>>
    THEN [sink EXCEPT !.dirs = @ \cup {aId},
                      !.thrown = "Cannot convert undefined or null to object"]
    ELSE IF fault = "stringify"
    THEN [sink EXCEPT !.dirs = @ \cup {aId},
                      !.thrown = "Failed to stringify rows for CSV: Invalid record"]
    ELSE IF fault = "append"
    THEN [sink EXCEPT !.dirs = @ \cup {aId},
                      !.thrown = "Failed to stringify rows for CSV: Failed to write to CSV file: EIO"]
    ELSE [sink EXCEPT !.dirs = @ \cup {aId},
                      !.files[<<aId, sId>>] = @ \o stringify(rows)]

(***************************************************************************)
(* The app: checkJobStatus, handleDataExport, handleExportProcess.         *)
(***************************************************************************)
\* Mutant: CANCELED not handled with FAILED.
checkJobStatusBranchNoCanceled(s) ==
    CASE s = "COMPLETED" -> "return"
      [] s = "FAILED" -> "throwJob"
      [] s = "RUNNING" -> "wait"
      [] OTHER -> "throwUnexpected"

\* Mutant: the wait skipped, a job still RUNNING taken as finished.
checkJobStatusBranchRunningReturns(s) ==
    CASE s = "COMPLETED" \/ s = "RUNNING" -> "return"
      [] s = "FAILED" \/ s = "CANCELED" -> "throwJob"
      [] OTHER -> "throwUnexpected"

\* Mutant: every status but the three final ones keeps the loop waiting.
checkJobStatusBranchWaitsOnUnknown(s) ==
    CASE s = "COMPLETED" -> "return"
      [] s = "FAILED" \/ s = "CANCELED" -> "throwJob"
      [] OTHER -> "wait"

\* Mutant: a FAILED job waited on like a RUNNING one.
checkJobStatusBranchWaitsOnFailed(s) ==
    CASE s = "COMPLETED" -> "return"
      [] s = "CANCELED" -> "throwJob"
      [] s = "RUNNING" \/ s = "FAILED" -> "wait"
      [] OTHER -> "throwUnexpected"

\* checkJobStatus: what the loop body does with the status just received.
checkJobStatusBranch(s) ==
    CASE s = "COMPLETED" -> "return"
      [] s = "FAILED" \/ s = "CANCELED" -> "throwJob"
      [] s = "RUNNING" -> "wait"
      [] OTHER -> "throwUnexpected"

JsError(msg) == [kind |-> "Error", status |-> 0, message |-> msg]

\* An entry of trace: "submit" (createExportJob called, n the category),
\* "poll" (getJobStatus called), "status" (tag: the status received),
\* "sleep" (a timer awaited, n its milliseconds), "fetch" (getJobResult
\* called, n the offset), "page" (a page received, n its rows) and "flush"
\* (writeCsvFile called, n its rows).
Event(ev, tag, n) == [ev |-> ev, tag |-> tag, n |-> n]

\* The locals of handleDataExport with the sink and the record of its
\* writeCsvFile calls; fault = [at, kind]: the at-th call of this step
\* meets the fault (at = 0: none does).
Flush(p) ==
    CHOOSE r \in {
        [p EXCEPT !.writes = @ + 1,
                  !.flushes = Append(@, [job |-> p.job, athleteId |-> p.athleteId,
                                         sessionId |-> p.sessionId, rows |-> p.rowsToWrite]),
                  !.trace = Append(@, Event("flush", p.athleteId, Len(p.rowsToWrite))),
                  !.dirs = sunk.dirs,
                  !.files = sunk.files,
                  !.thrown = sunk.thrown]
        : sunk \in {writeCsvFile([dirs |-> p.dirs, files |-> p.files, thrown |-> "none"],
                                 p.rowsToWrite, p.athleteId, p.sessionId,
                                 IF p.fault.at = p.writes + 1 THEN p.fault.kind ELSE "none")}
        } : TRUE

\* Mutant: rowsToWrite = [] left out.
ClearIfWrittenKeeps(f0) == f0

\* rowsToWrite = []; after writeCsvFile returned.
ClearIfWritten(f0) ==
    CHOOSE r \in {IF f.thrown = "none" THEN [f EXCEPT !.rowsToWrite = <<>>] ELSE f
                  : f \in {f0}} : TRUE

\* The body of for (const row of result.rows), statement by statement;
\* a statement after a throw is not run.
\* if (athleteId && athleteId !== currentAthleteId) { if (rowsToWrite.length > 0) ... }
AthleteChange(p, row) ==
    IF Truthy(p.athleteId) /\ p.athleteId # row.athleteid /\ Len(p.rowsToWrite) > 0
    THEN ClearIfWritten(Flush(p))
    ELSE p

\* Mutant: only a change of athlete writes the buffer.
SessionChangeIgnored(p, row) == p

\* Mutant: the session test without if (rowsToWrite.length > 0).
SessionChangeNoLengthTest(p, row) ==
    IF p.thrown = "none" /\ Truthy(p.sessionId) /\ p.sessionId # row.sessionid
    THEN ClearIfWritten(Flush(p))
    ELSE p

\* if (sessionId && sessionId !== currentSessionId) { if (rowsToWrite.length > 0) ... }
SessionChange(p, row) ==
    IF p.thrown = "none" /\ Truthy(p.sessionId) /\ p.sessionId # row.sessionid
       /\ Len(p.rowsToWrite) > 0
    THEN ClearIfWritten(Flush(p))
    ELSE p

\* Mutant: the current key set by the first row only, not updated after.
AccumulateKeepsKey(p, row) ==
    IF p.thrown # "none" THEN p
    ELSE [p EXCEPT !.rowsToWrite = Append(@, row),
                   !.athleteId = IF Truthy(@) THEN @ ELSE row.athleteid,
                   !.sessionId = IF Truthy(@) THEN @ ELSE row.sessionid]

\* rowsToWrite.push(row); athleteId = currentAthleteId; sessionId = currentSessionId;
Accumulate(p, row) ==
    IF p.thrown # "none" THEN p
    ELSE [p EXCEPT !.rowsToWrite = Append(@, row),
                   !.athleteId = row.athleteid,
                   !.sessionId = row.sessionid]

handleDataExportRow(p0, row) ==
    LET afterAthlete == {AthleteChange(p, row) : p \in {p0}}
        afterSession == {SessionChange(p, row) : p \in afterAthlete}
        afterPush    == {Accumulate(p, row) : p \in afterSession}
    IN  CHOOSE p \in afterPush : TRUE

RECURSIVE handleDataExportRows(_, _, _)
handleDataExportRows(p0, rows, i) ==
    CHOOSE r \in {IF i > Len(rows) \/ p.thrown # "none" THEN p
                  ELSE handleDataExportRows(handleDataExportRow(p, rows[i]), rows, i + 1)
                  : p \in {p0}} : TRUE

\* Mutant: offset += limit.
handleDataExportPageByLimit(p0, rows) ==
    CHOOSE r \in {IF q.thrown # "none" THEN q ELSE [q EXCEPT !.offset = @ + limit]
                  : q \in {handleDataExportRows(p0, rows, 1)}} : TRUE

\* A page with rows: the for loop, then offset += result.rows.length.
handleDataExportPage(p0, rows) ==
    CHOOSE r \in {IF q.thrown # "none" THEN q ELSE [q EXCEPT !.offset = @ + Len(rows)]
                  : q \in {handleDataExportRows(p0, rows, 1)}} : TRUE

\* Mutant: the rows still buffered when the stream ends are not written.
handleDataExportEndNoFlush(p0) == p0

\* Mutant: the final writeCsvFile made without the test of the buffer.
handleDataExportEndAlwaysFlushes(p0) == Flush(p0)

\* Mutant: the remaining buffer written a second time on the way out.
handleDataExportEndFlushesTwice(p0) ==
    CHOOSE r \in {IF Len(p.rowsToWrite) > 0
                  THEN (IF Flush(p).thrown = "none" THEN Flush(Flush(p)) ELSE Flush(p))
                  ELSE p : p \in {p0}} : TRUE

\* After the loop: if (rowsToWrite.length > 0) writeCsvFile(...).
handleDataExportEnd(p0) ==
    CHOOSE r \in {IF Len(p.rowsToWrite) > 0 THEN Flush(p) ELSE p : p \in {p0}} : TRUE

\* Mutant: only a missing result ends the loop.
EndOfRowsMissingOnly(result) == ~result.present

\* Mutant: a page shorter than limit ends the loop as well.
EndOfRowsShortPage(result) == ~result.present \/ Len(result.rows) < limit

\* if (!result || result.rows.length === 0) break;
EndOfRows(result) == ~result.present \/ Len(result.rows) = 0

\* handleDataExport run to its end on the rows of a result set that the
\* service serves in pages of lim rows, nothing failing: the locals it ends
\* with, its writeCsvFile calls among them.
RECURSIVE handleDataExportOver(_, _, _)
handleDataExportOver(p0, rows, lim) ==
    CHOOSE r \in {IF p.offset >= Len(rows) THEN handleDataExportEnd(p)
                  ELSE handleDataExportOver(
                           handleDataExportPage(p, SubSeq(rows, p.offset + 1,
                                                          Min(p.offset + lim, Len(rows)))),
                           rows, lim)
                  : p \in {p0}} : TRUE

\* let sessionId = null; let athleteId = null; let rowsToWrite = []; with an
\* empty ./data
FreshLocals(job) ==
    [job |-> job, offset |-> 0, athleteId |-> "null", sessionId |-> "null",
     rowsToWrite |-> <<>>, dirs |-> {}, files |-> [k \in FileKeys |-> <<>>],
     flushes |-> <<>>, trace |-> <<>>, thrown |-> "none", writes |-> 0,
     fault |-> [at |-> 0, kind |-> "none"]]

Locals(fault) ==
    [job |-> jobId, offset |-> offset, athleteId |-> athleteId, sessionId |-> sessionId,
     rowsToWrite |-> rowsToWrite, dirs |-> dirs, files |-> files, flushes |-> flushes,
     trace |-> Append(trace, Event("page", IF exec.value.present THEN "rows" ELSE "nodata",
                                   Len(exec.value.rows))),
     thrown |-> "none", writes |-> 0, fault |-> fault]

NoFault == [at |-> 0, kind |-> "none"]

\* The faults a step that makes n writeCsvFile calls can meet.
FaultsFor(n) == {NoFault} \cup {[at |-> k, kind |-> f] : k \in 1..n, f \in SinkFaults}

\* The next iteration of for (const category of categories) up to its
\* await createExportJob, or the end of handleExportProcess.
LoopNext ==
    IF category < Len(categories)
    THEN /\ category' = category + 1
         /\ exec' = createExportJob(DefaultMaxRetries, DefaultRetryDelay)
         /\ pc' = "creating"
         /\ jobId' = ""
         /\ polls' = 0
         /\ fetches' = <<>>
         /\ earlier504' = 0
         /\ UNCHANGED demoTrace
    ELSE /\ pc' = "done"
         /\ UNCHANGED <<category, exec, jobId, polls, fetches, earlier504, demoTrace>>

SubmitEvent(c) == Event("submit", categories[c].movement, c)

\* Mutant: a createExportJob answer without a jobId taken as a failure of
\* the run.
CreateReturnedMissingThrows ==
    /\ pc = "creating" /\ exec.state = "returned"
    /\ IF Truthy(exec.value.jobId)
       THEN /\ jobId' = exec.value.jobId
            /\ status' = "undefined"
            /\ exec' = getJobStatus(exec.value.jobId, DefaultMaxRetries, DefaultRetryDelay)
            /\ polls' = 1
            /\ trace' = Append(trace, Event("poll", exec.value.jobId, 1))
            /\ earlier504' = exec.retryCount
            /\ UNCHANGED demoTrace
            /\ pc' = "polling"
            /\ UNCHANGED <<category, fetches, error>>
       ELSE /\ pc' = "failed"
            /\ error' = JsError("No jobId")
            /\ UNCHANGED <<exec, category, jobId, status, histVars>>
    /\ UNCHANGED <<offset, limit, athleteId, sessionId, rowsToWrite, flushes>>
    /\ UNCHANGED <<sinkVars, svcVars>>

\* createExportJob resolved: if (jobId) checkJobStatus(...), whose first
\* getJobStatus call is issued.
CreateReturned ==
    /\ pc = "creating" /\ exec.state = "returned"
    /\ IF Truthy(exec.value.jobId)
       THEN /\ jobId' = exec.value.jobId
            /\ status' = "undefined"
            /\ exec' = getJobStatus(exec.value.jobId, DefaultMaxRetries, DefaultRetryDelay)
            /\ polls' = 1
            /\ trace' = Append(trace, Event("poll", exec.value.jobId, 1))
            /\ earlier504' = exec.retryCount
            /\ UNCHANGED demoTrace
            /\ pc' = "polling"
            /\ UNCHANGED <<category, fetches>>
       ELSE /\ LoopNext
            /\ trace' = IF pc' = "creating" THEN <<SubmitEvent(category')>> ELSE trace
            /\ UNCHANGED status
    /\ UNCHANGED <<offset, limit, athleteId, sessionId, rowsToWrite, error, flushes>>
    /\ UNCHANGED <<sinkVars, svcVars>>

\* Mutant: the catch of handleExportProcess logs the error and the for loop
\* goes on with the next category.
CreateThrewSkips ==
    /\ pc = "creating" /\ exec.state = "thrown"
    /\ LoopNext
    /\ trace' = IF pc' = "creating" THEN <<SubmitEvent(category')>> ELSE trace
    /\ UNCHANGED <<status, offset, limit, athleteId, sessionId,
                   rowsToWrite, error, flushes, sinkVars, svcVars>>

\* An API call of handleExportProcess or checkJobStatus rejected: the catch
\* of handleExportProcess logs the error and throws it again.
CreateThrew ==
    /\ pc = "creating" /\ exec.state = "thrown"
    /\ pc' = "failed"
    /\ error' = exec.error
    /\ UNCHANGED <<exec, category, jobId, status, offset, limit, athleteId, sessionId,
                   rowsToWrite, sinkVars, svcVars, histVars>>

\* Mutant: the locals of handleDataExport and the offset kept in the
\* module, the reading of a job going on from what the last job left.
StatusReturnedKeepsLocals ==
    /\ pc = "polling" /\ exec.state = "returned"
    /\ status' = exec.value.status
    /\ LET branch == checkJobStatusBranch(exec.value.status)
       IN  CASE branch = "return" ->
                  \* return true; if (status) handleDataExport(..., offset, limit):
                  \* its first getJobResult call is issued.
                  /\ UNCHANGED <<offset, limit, athleteId, sessionId, rowsToWrite>>
                  /\ exec' = getJobResults(jobId, offset, limit,
                                           DefaultMaxRetries, DefaultRetryDelay)
                  /\ fetches' = <<[offset |-> offset, limit |-> limit]>>
                  /\ earlier504' = exec.retryCount
                  /\ UNCHANGED demoTrace
                  /\ trace' = trace \o <<Event("status", exec.value.status, 0),
                                         Event("fetch", jobId, offset)>>
                  /\ pc' = "fetching"
                  /\ UNCHANGED error
             [] branch = "throwJob" ->
                  /\ pc' = "failed"
                  /\ error' = JsError("Job " \o exec.value.status \o ". Unable to retrieve result.")
                  /\ trace' = Append(trace, Event("status", exec.value.status, 0))
                  /\ UNCHANGED <<exec, offset, limit, athleteId, sessionId, rowsToWrite,
                                 fetches, earlier504, demoTrace>>
             [] branch = "wait" ->
                  /\ pc' = "pollWait"
                  /\ trace' = trace \o <<Event("status", exec.value.status, 0),
                                         Event("sleep", "poll", PollIntervalMs)>>
                  /\ UNCHANGED <<exec, offset, limit, athleteId, sessionId, rowsToWrite,
                                 fetches, error, earlier504, demoTrace>>
             [] OTHER ->
                  /\ pc' = "failed"
                  /\ error' = JsError("Unexpected Job Status: " \o exec.value.status)
                  /\ trace' = Append(trace, Event("status", exec.value.status, 0))
                  /\ UNCHANGED <<exec, offset, limit, athleteId, sessionId, rowsToWrite,
                                 fetches, earlier504, demoTrace>>
    /\ UNCHANGED <<category, jobId, polls, flushes, sinkVars, svcVars>>

\* getJobStatus resolved inside checkJobStatus.
StatusReturned ==
    /\ pc = "polling" /\ exec.state = "returned"
    /\ status' = exec.value.status
    /\ LET branch == checkJobStatusBranch(exec.value.status)
       IN  CASE branch = "return" ->
                  \* return true; if (status) handleDataExport(..., offset, limit):
                  \* its first getJobResult call is issued.
                  /\ offset' = 0
                  /\ limit' = PageLimit
                  /\ athleteId' = "null"
                  /\ sessionId' = "null"
                  /\ rowsToWrite' = <<>>
                  /\ exec' = getJobResults(jobId, 0, PageLimit,
                                           DefaultMaxRetries, DefaultRetryDelay)
                  /\ fetches' = <<[offset |-> 0, limit |-> PageLimit]>>
                  /\ earlier504' = exec.retryCount
                  /\ UNCHANGED demoTrace
                  /\ trace' = trace \o <<Event("status", exec.value.status, 0),
                                         Event("fetch", jobId, 0)>>
                  /\ pc' = "fetching"
                  /\ UNCHANGED error
             [] branch = "throwJob" ->
                  /\ pc' = "failed"
                  /\ error' = JsError("Job " \o exec.value.status \o ". Unable to retrieve result.")
                  /\ trace' = Append(trace, Event("status", exec.value.status, 0))
                  /\ UNCHANGED <<exec, offset, limit, athleteId, sessionId, rowsToWrite,
                                 fetches, earlier504, demoTrace>>
             [] branch = "wait" ->
                  /\ pc' = "pollWait"
                  /\ trace' = trace \o <<Event("status", exec.value.status, 0),
                                         Event("sleep", "poll", PollIntervalMs)>>
                  /\ UNCHANGED <<exec, offset, limit, athleteId, sessionId, rowsToWrite,
                                 fetches, error, earlier504, demoTrace>>
             [] OTHER ->
                  /\ pc' = "failed"
                  /\ error' = JsError("Unexpected Job Status: " \o exec.value.status)
                  /\ trace' = Append(trace, Event("status", exec.value.status, 0))
                  /\ UNCHANGED <<exec, offset, limit, athleteId, sessionId, rowsToWrite,
                                 fetches, earlier504, demoTrace>>
    /\ UNCHANGED <<category, jobId, polls, flushes, sinkVars, svcVars>>

\* Mutant: a rejected getJobStatus skips the category.
StatusThrewSkips ==
    /\ pc = "polling" /\ exec.state = "thrown"
    /\ LoopNext
    /\ trace' = IF pc' = "creating" THEN <<SubmitEvent(category')>> ELSE trace
    /\ UNCHANGED <<status, offset, limit, athleteId, sessionId,
                   rowsToWrite, error, flushes, sinkVars, svcVars>>

\* await getJobStatus(...) rejected inside checkJobStatus: thrown on by the
\* catch of handleExportProcess.
StatusThrew ==
    /\ pc = "polling" /\ exec.state = "thrown"
    /\ pc' = "failed"
    /\ error' = exec.error
    /\ UNCHANGED <<exec, category, jobId, status, offset, limit, athleteId, sessionId,
                   rowsToWrite, sinkVars, svcVars, histVars>>

\* Mutant: a maximum poll count, the loop given up after two polls.
PollIntervalElapsedCapped ==
    /\ pc = "pollWait"
    /\ IF status = "RUNNING" /\ polls < 2
       THEN /\ exec' = getJobStatus(jobId, DefaultMaxRetries, DefaultRetryDelay)
            /\ polls' = polls + 1
            /\ trace' = Append(trace, Event("poll", jobId, polls + 1))
            /\ earlier504' = exec.retryCount
            /\ UNCHANGED demoTrace
            /\ pc' = "polling"
            /\ UNCHANGED <<category, jobId, fetches>>
       ELSE /\ LoopNext
            /\ trace' = IF pc' = "creating" THEN <<SubmitEvent(category')>> ELSE trace
    /\ UNCHANGED <<status, offset, limit, athleteId, sessionId,
                   rowsToWrite, error, flushes, sinkVars, svcVars>>

\* The 5 second timer of checkJobStatus fires: while (status === 'RUNNING')
\* holds and the next getJobStatus call is issued.
PollIntervalElapsed ==
    /\ pc = "pollWait"
    /\ IF status = "RUNNING"
       THEN /\ exec' = getJobStatus(jobId, DefaultMaxRetries, DefaultRetryDelay)
            /\ polls' = polls + 1
            /\ trace' = Append(trace, Event("poll", jobId, polls + 1))
            /\ earlier504' = exec.retryCount
            /\ UNCHANGED demoTrace
            /\ pc' = "polling"
            /\ UNCHANGED <<category, jobId, fetches>>
       ELSE \* the loop ends and checkJobStatus returns undefined: if (status)
            \* skips handleDataExport
            /\ LoopNext
            /\ trace' = IF pc' = "creating" THEN <<SubmitEvent(category')>> ELSE trace
    /\ UNCHANGED <<status, offset, limit, athleteId, sessionId,
                   rowsToWrite, error, flushes, sinkVars, svcVars>>

ExportFailed == JsError("Failed to export data due to an error in fetching or saving data.")

\* Mutant: the 1 second pause taken before the test of the page, so after
\* the empty page as well.
ResultsReturnedPausesFirst ==
    /\ pc = "fetching" /\ exec.state = "returned"
    /\ LET result == exec.value
           Run(fault) == IF EndOfRows(result)
                         THEN handleDataExportEnd(Locals(fault))
                         ELSE handleDataExportPage(Locals(fault), result.rows)
       IN  \E plain \in {Run(NoFault)} : \E fault \in FaultsFor(plain.writes) :
             \E p \in {Run(fault)} :
                 /\ athleteId' = p.athleteId
                 /\ sessionId' = p.sessionId
                 /\ rowsToWrite' = p.rowsToWrite
                 /\ offset' = p.offset
                 /\ dirs' = p.dirs
                 /\ files' = p.files
                 /\ flushes' = p.flushes
                 /\ IF p.thrown # "none"
                    THEN \* catch (error): throw new Error(...), thrown again by
                         \* the catch of handleExportProcess
                         /\ pc' = "failed"
                         /\ error' = ExportFailed
                         /\ trace' = p.trace
                         /\ UNCHANGED <<exec, category, jobId, polls, fetches, earlier504, demoTrace>>
                    ELSE IF EndOfRows(result)
                    THEN /\ LoopNext
                         /\ trace' = IF pc' = "creating" THEN <<SubmitEvent(category')>>
                                      ELSE Append(p.trace, Event("sleep", "pace", PacingMs))
                         /\ UNCHANGED error
                    ELSE /\ pc' = "pacing"
                         /\ trace' = Append(p.trace, Event("sleep", "pace", PacingMs))
                         /\ UNCHANGED <<exec, category, jobId, polls, fetches, error,
                                        earlier504, demoTrace>>
    /\ UNCHANGED <<status, limit, svcVars>>

\* getJobResult resolved inside handleDataExport.
ResultsReturned ==
    /\ pc = "fetching" /\ exec.state = "returned"
    /\ LET result == exec.value
           Run(fault) == IF EndOfRows(result)
                         THEN handleDataExportEnd(Locals(fault))
                         ELSE handleDataExportPage(Locals(fault), result.rows)
       IN  \E plain \in {Run(NoFault)} : \E fault \in FaultsFor(plain.writes) :
             \E p \in {Run(fault)} :
                 /\ athleteId' = p.athleteId
                 /\ sessionId' = p.sessionId
                 /\ rowsToWrite' = p.rowsToWrite
                 /\ offset' = p.offset
                 /\ dirs' = p.dirs
                 /\ files' = p.files
                 /\ flushes' = p.flushes
                 /\ IF p.thrown # "none"
                    THEN \* catch (error): throw new Error(...), thrown again by
                         \* the catch of handleExportProcess
                         /\ pc' = "failed"
                         /\ error' = ExportFailed
                         /\ trace' = p.trace
                         /\ UNCHANGED <<exec, category, jobId, polls, fetches, earlier504, demoTrace>>
                    ELSE IF EndOfRows(result)
                    THEN /\ LoopNext
                         /\ trace' = IF pc' = "creating" THEN <<SubmitEvent(category')>>
                                      ELSE p.trace
                         /\ UNCHANGED error
                    ELSE /\ pc' = "pacing"
                         /\ trace' = Append(p.trace, Event("sleep", "pace", PacingMs))
                         /\ UNCHANGED <<exec, category, jobId, polls, fetches, error,
                                        earlier504, demoTrace>>
    /\ UNCHANGED <<status, limit, svcVars>>

\* Mutant: a rejected getJobResult ends the reading of the job only, the
\* for loop going on with the next category.
ResultsThrewSkips ==
    /\ pc = "fetching" /\ exec.state = "thrown"
    /\ LoopNext
    /\ trace' = IF pc' = "creating" THEN <<SubmitEvent(category')>> ELSE trace
    /\ UNCHANGED <<status, offset, limit, athleteId, sessionId,
                   rowsToWrite, error, flushes, sinkVars, svcVars>>

\* Mutant: the catch of handleDataExport writes the rows still buffered
\* before it throws.
ResultsThrewFlushes ==
    /\ pc = "fetching" /\ exec.state = "thrown"
    /\ pc' = "failed"
    /\ error' = ExportFailed
    /\ \E p \in {handleDataExportEnd([Locals(NoFault) EXCEPT !.trace = trace])} :
          /\ dirs' = p.dirs
          /\ files' = p.files
          /\ flushes' = p.flushes
          /\ trace' = p.trace
    /\ UNCHANGED <<exec, category, jobId, status, offset, limit, athleteId, sessionId,
                   rowsToWrite, svcVars, polls, fetches, earlier504, demoTrace>>

\* await getJobResult(...) rejected inside handleDataExport: its catch
\* throws a new Error, thrown again by the catch of handleExportProcess.
ResultsThrew ==
    /\ pc = "fetching" /\ exec.state = "thrown"
    /\ pc' = "failed"
    /\ error' = ExportFailed
    /\ UNCHANGED <<exec, category, jobId, status, offset, limit, athleteId, sessionId,
                   rowsToWrite, sinkVars, svcVars, histVars>>

\* Mutant: handleDataExport not awaited, the for loop of handleExportProcess
\* going on to the next category while pages are still to be read.
PacingElapsedNotAwaited ==
    /\ pc = "pacing"
    /\ LoopNext
    /\ trace' = IF pc' = "creating" THEN <<SubmitEvent(category')>> ELSE trace
    /\ UNCHANGED <<status, offset, limit, athleteId, sessionId,
                   rowsToWrite, error, flushes, sinkVars, svcVars>>

\* Mutant: one retry counter for all the page fetches of a job, the next
\* fetch going on from the count the last one ended with.
PacingElapsedSharedCounter ==
    /\ pc = "pacing"
    /\ exec' = [getJobResults(jobId, offset, limit, DefaultMaxRetries, DefaultRetryDelay)
                   EXCEPT !.retryCount = exec.retryCount]
    /\ fetches' = Append(fetches, [offset |-> offset, limit |-> limit])
    /\ trace' = Append(trace, Event("fetch", jobId, offset))
    /\ earlier504' = exec.retryCount
    /\ UNCHANGED demoTrace
    /\ pc' = "fetching"
    /\ UNCHANGED <<category, jobId, status, offset, limit, athleteId, sessionId,
                   rowsToWrite, error, polls, flushes, sinkVars, svcVars>>

\* The 1 second timer of handleDataExport fires: the next getJobResult call
\* is issued.
PacingElapsed ==
    /\ pc = "pacing"
    /\ exec' = getJobResults(jobId, offset, limit, DefaultMaxRetries, DefaultRetryDelay)
    /\ fetches' = Append(fetches, [offset |-> offset, limit |-> limit])
    /\ trace' = Append(trace, Event("fetch", jobId, offset))
    /\ earlier504' = exec.retryCount
    /\ UNCHANGED demoTrace
    /\ pc' = "fetching"
    /\ UNCHANGED <<category, jobId, status, offset, limit, athleteId, sessionId,
                   rowsToWrite, error, polls, flushes, sinkVars, svcVars>>

\* handleExportProcess has read env.json and awaits the createExportJob of
\* the first category.
AppInit ==
    /\ exec = createExportJob(DefaultMaxRetries, DefaultRetryDelay)
    /\ pc = "creating"
    /\ trace = <<Event("submit", categories[1].movement, 1)>>
    /\ InitCommon

(***************************************************************************)
(* The standalone demo, javascript/dataExportDemo.js: its own client,      *)
(* without retries, getExportData and the main loop.  It uses exec, pc,    *)
(* category, jobId, status, offset, limit and error as the app does; its   *)
(* API calls have the ops "demoCreate", "demoStatus" and "demoResult".     *)
(***************************************************************************)
\* handleError of dataExportDemo.js: the message it logs.
demoHandleError(err) ==
    IF err.kind = "http"
    THEN CASE err.status = 400 -> "Bad Request: Please check the job ID or request parameters."
           [] err.status = 401 -> "Unauthorized: Check your authorization token."
           [] err.status = 403 -> "Forbidden: You do not have access to this resource."
           [] err.status = 404 -> "Not Found: The specified job ID does not exist or has no result."
           [] err.status = 429 -> "Too Many Requests: You are being rate limited. Try again later."
           [] err.status = 500 -> "Internal Server Error: Something went wrong on the server."
           [] OTHER -> DefaultMessage[err.status]
    ELSE "Error:"

\* catch (error) { handleError(error); throw error; }
demoCatch(e, err) ==
    [e EXCEPT !.handled = Append(@, demoHandleError(err)),
              !.failures = Append(@, err),
              !.error = err,
              !.state = "thrown"]

\* createExportJob(data): axios.post called.
demoCreateExportJob == Invocation("demoCreate", "", 0, 0, 0, 0)

\* getJobStatus(jobId): if (!jobId) return; else axios.get called.
demoGetJobStatus(job) ==
    IF ~Truthy(job)
    THEN [Invocation("demoStatus", job, 0, 0, 0, 0)
              EXCEPT !.state = "returned", !.calls = 0, !.reported = TRUE]
    ELSE Invocation("demoStatus", job, 0, 0, 0, 0)

\* getJobResult(jobId, offset, limit): if (!jobId) return; else axios.get
\* called.
demoGetJobResult(job, off, lim) ==
    IF ~Truthy(job)
    THEN [Invocation("demoResult", job, off, lim, 0, 0)
              EXCEPT !.state = "returned", !.calls = 0, !.reported = TRUE]
    ELSE Invocation("demoResult", job, off, lim, 0, 0)

\* The service answers the POST of the demo.
DemoRespondCreate ==
    /\ exec.op = "demoCreate" /\ exec.state = "request"
    /\ \/ \E j \in {"", JobIdOf(category)} :
             exec' = makeRequestReturn(exec, [NoValue EXCEPT !.jobId = j])
       \/ \E err \in Failures : exec' = demoCatch(exec, err)
    /\ UNCHANGED <<appVars, sinkVars, svcVars, histVars>>

\* The service answers a GET /job/{jobId} of the demo.
DemoRespondStatus ==
    /\ exec.op = "demoStatus" /\ exec.state = "request"
    /\ \/ /\ \E s \in StatusValues \ {"COMPLETED"} :
                /\ s = "RUNNING" => polls < MaxPolls
                /\ exec' = makeRequestReturn(exec, [NoValue EXCEPT !.status = s])
          /\ UNCHANGED svcVars
       \/ /\ exec' = makeRequestReturn(exec, [NoValue EXCEPT !.status = "COMPLETED"])
          /\ IF exec.jobId \in svcDone
             THEN UNCHANGED svcVars
             ELSE /\ svcDone' = svcDone \cup {exec.jobId}
                  /\ \E keys \in KeySeqs(MaxRows - RowsHeld) :
                        svcResults' = [svcResults EXCEPT ![exec.jobId] = MkRows(keys, RowsHeld)]
       \/ /\ \E err \in Failures : exec' = demoCatch(exec, err)
          /\ UNCHANGED svcVars
    /\ UNCHANGED <<appVars, sinkVars, histVars>>

\* The service answers a GET /job/{jobId}/result of the demo: the page, or
\* a response without a body.
DemoRespondResult ==
    /\ exec.op = "demoResult" /\ exec.state = "request"
    /\ \/ exec' = makeRequestReturn(exec,
                     [NoValue EXCEPT !.present = TRUE,
                                     !.rows = PageOf(exec.jobId, exec.offset, exec.limit)])
       \/ exec' = makeRequestReturn(exec, NoValue)
       \/ \E err \in Failures : exec' = demoCatch(exec, err)
    /\ UNCHANGED <<appVars, sinkVars, svcVars, histVars>>

\* The next iteration of for (const e of categories): offset = 0;
\* limit = 500; await createExportJob(...), or the end of the script.
DemoLoopNext ==
    IF category < Len(categories)
    THEN /\ category' = category + 1
         /\ offset' = 0
         /\ limit' = PageLimit
         /\ exec' = demoCreateExportJob
         /\ pc' = "demoCreating"
         /\ jobId' = ""
         /\ polls' = 0
         /\ fetches' = <<>>
         /\ demoTrace' = <<>>
    ELSE /\ pc' = "demoDone"
         /\ UNCHANGED <<category, offset, limit, exec, jobId, polls, fetches, demoTrace>>

\* getExportData(jobId, offset, limit) called: its first getJobStatus call
\* is issued.
DemoGetExportData(job) ==
    /\ exec' = demoGetJobStatus(job)
    /\ polls' = polls + 1
    /\ demoTrace' = <<Event("poll", job, polls + 1)>>
    /\ pc' = "demoPolling"

\* createExportJob resolved: if (jobId) do { result = await getExportData
DemoCreateReturned ==
    /\ pc = "demoCreating" /\ exec.state = "returned"
    /\ IF Truthy(exec.value.jobId)
       THEN /\ jobId' = exec.value.jobId
            /\ DemoGetExportData(exec.value.jobId)
            /\ UNCHANGED <<category, offset, limit, fetches>>
       ELSE DemoLoopNext
    /\ UNCHANGED <<status, athleteId, sessionId, rowsToWrite, error,
                   flushes, trace, earlier504, sinkVars, svcVars>>

\* createExportJob rejected: the top-level await throws and the script ends.
DemoCreateThrew ==
    /\ pc = "demoCreating" /\ exec.state = "thrown"
    /\ pc' = "demoFailed"
    /\ error' = exec.error
    /\ UNCHANGED <<exec, category, jobId, status, offset, limit, athleteId, sessionId,
                   rowsToWrite, sinkVars, svcVars, histVars>>

\* Mutant: getJobResult called on the first status received, whatever it is.
DemoStatusReturnedFetchesAnyway ==
    /\ pc = "demoPolling" /\ exec.state = "returned"
    /\ status' = exec.value.status
    /\ exec' = demoGetJobResult(jobId, offset, limit)
    /\ fetches' = Append(fetches, [offset |-> offset, limit |-> limit])
    /\ demoTrace' = demoTrace \o <<Event("status", exec.value.status, 0),
                                   Event("fetch", jobId, offset)>>
    /\ pc' = "demoFetching"
    /\ UNCHANGED <<category, jobId, offset, limit, polls>>
    /\ UNCHANGED <<athleteId, sessionId, rowsToWrite, error,
                   flushes, trace, earlier504, sinkVars, svcVars>>

\* getJobStatus resolved inside getExportData: the if chain of the do loop.
\* A return without a value, or the break on an unexpected status, gives
\* the main loop a result that is undefined: if (!result) break.
DemoStatusReturned ==
    /\ pc = "demoPolling" /\ exec.state = "returned"
    /\ status' = exec.value.status
    /\ CASE exec.value.status = "COMPLETED" ->
              /\ exec' = demoGetJobResult(jobId, offset, limit)
              /\ fetches' = Append(fetches, [offset |-> offset, limit |-> limit])
              /\ demoTrace' = demoTrace \o <<Event("status", exec.value.status, 0),
                                             Event("fetch", jobId, offset)>>
              /\ pc' = "demoFetching"
              /\ UNCHANGED <<category, jobId, offset, limit, polls>>
         [] exec.value.status \in {"FAILED", "CANCELED"} ->
              DemoLoopNext
         [] exec.value.status = "RUNNING" ->
              /\ pc' = "demoPollWait"
              /\ demoTrace' = demoTrace \o <<Event("status", exec.value.status, 0),
                                             Event("sleep", "poll", PollIntervalMs)>>
              /\ UNCHANGED <<exec, category, jobId, offset, limit, polls, fetches>>
         [] OTHER ->
              DemoLoopNext
    /\ UNCHANGED <<athleteId, sessionId, rowsToWrite, error,
                   flushes, trace, earlier504, sinkVars, svcVars>>

\* Mutant: the catch of getExportData throws the error on.
DemoStatusThrewPropagates ==
    /\ pc = "demoPolling" /\ exec.state = "thrown"
    /\ pc' = "demoFailed"
    /\ error' = exec.error
    /\ UNCHANGED <<exec, category, jobId, status, offset, limit, athleteId, sessionId,
                   rowsToWrite, sinkVars, svcVars, histVars>>

\* getJobStatus rejected inside getExportData: the catch logs and
\* getExportData returns undefined; if (!result) break.
DemoStatusThrew ==
    /\ pc = "demoPolling" /\ exec.state = "thrown"
    /\ DemoLoopNext
    /\ UNCHANGED <<status, athleteId, sessionId, rowsToWrite, error,
                   flushes, trace, earlier504, sinkVars, svcVars>>

\* The 5 second timer of getExportData fires: while (status === 'RUNNING')
\* holds and getJobStatus is called again.
DemoPollIntervalElapsed ==
    /\ pc = "demoPollWait"
    /\ exec' = demoGetJobStatus(jobId)
    /\ polls' = polls + 1
    /\ demoTrace' = Append(demoTrace, Event("poll", jobId, polls + 1))
    /\ pc' = "demoPolling"
    /\ UNCHANGED <<category, jobId, status, offset, limit, athleteId, sessionId,
                   rowsToWrite, error, fetches, flushes, trace, earlier504,
                   sinkVars, svcVars>>

\* getJobResult resolved: getExportData returns response.data.  The main
\* loop: if (!result) break; offset += result.rows.length; while (result &&
\* result.rows.length > 0) calls getExportData again.
DemoResultReturned ==
    /\ pc = "demoFetching" /\ exec.state = "returned"
    /\ IF ~exec.value.present
       THEN DemoLoopNext
       ELSE IF Len(exec.value.rows) > 0
       THEN /\ offset' = offset + Len(exec.value.rows)
            /\ DemoGetExportData(jobId)
            /\ UNCHANGED <<category, jobId, limit, fetches>>
       ELSE DemoLoopNext
    /\ UNCHANGED <<status, athleteId, sessionId, rowsToWrite, error,
                   flushes, trace, earlier504, sinkVars, svcVars>>

\* getJobResult rejected inside getExportData: the catch logs and
\* getExportData returns undefined; if (!result) break.
DemoResultThrew ==
    /\ pc = "demoFetching" /\ exec.state = "thrown"
    /\ DemoLoopNext
    /\ UNCHANGED <<status, athleteId, sessionId, rowsToWrite, error,
                   flushes, trace, earlier504, sinkVars, svcVars>>

\* dataExportDemo.js awaits the createExportJob of the first category.
DemoInit ==
    /\ exec = demoCreateExportJob
    /\ pc = "demoCreating"
    /\ trace = <<>>
    /\ InitCommon

\* The two programs of the repository's Node.js side: app.js run as the
\* main module, and the client called directly with arguments of the
\* caller's choice.
Init == AppInit \/ CallerInit

Next ==
    \/ InvokeCreate
    \/ InvokeStatus
    \/ InvokeResults
    \/ RespondCreate
    \/ RespondStatus
    \/ RespondResults
    \/ BackoffElapsed
    \/ CreateReturned
    \/ CreateThrew
    \/ StatusReturned
    \/ StatusThrew
    \/ PollIntervalElapsed
    \/ ResultsReturned
    \/ ResultsThrew
    \/ PacingElapsed

Spec == Init /\ [][Next]_vars

\* The timers fire and the service answers every request: a step that can be
\* taken is taken.
FairSpec == Spec /\ WF_vars(Next)

\* dataExportDemo.js run as the main module.
DemoNext ==
    \/ DemoRespondCreate
    \/ DemoRespondStatus
    \/ DemoRespondResult
    \/ DemoCreateReturned
    \/ DemoCreateThrew
    \/ DemoStatusReturned
    \/ DemoStatusThrew
    \/ DemoPollIntervalElapsed
    \/ DemoResultReturned
    \/ DemoResultThrew

DemoSpec == DemoInit /\ [][DemoNext]_vars

(***************************************************************************)
(* Properties.                                                             *)
(***************************************************************************)
Is504(err) == err.kind = "http" /\ err.status = 504

Last(seq) == seq[Len(seq)]

EventsOf(ev) == SelectSeq(trace, LAMBDA e : e.ev = ev)

RECURSIVE SumN(_, _)
SumN(seq, k) == IF k <= 0 THEN 0 ELSE seq[k].n + SumN(seq, k - 1)

KnownStatuses == {"COMPLETED", "FAILED", "CANCELED", "RUNNING"}

\* C1: in an invocation with maxRetries = M, a transport call follows a
\* failed one only if that failure was a 504 and fewer than M retries had
\* been made; an invocation makes at most M + 1 transport calls (one when
\* M = 0), and at least one when it was given a jobId.
C1_RetryOnly504BelowMax ==
    /\ exec.calls <= exec.maxRetries + 1
    /\ exec.state \in {"request", "backoff", "thrown"} => exec.calls >= 1
    /\ exec.calls = exec.retryCount + (IF exec.state = "backoff" \/ exec.calls = 0 THEN 0 ELSE 1)
    /\ \A i \in 1..Len(exec.failures) :
          (i < exec.calls \/ exec.state = "backoff") =>
             /\ Is504(exec.failures[i])
             /\ i - 1 < exec.maxRetries

C1_Witness ==
    /\ exec.op = "create"
    /\ exec.maxRetries = DefaultMaxRetries
    /\ exec.calls = DefaultMaxRetries + 1
    /\ exec.state = "thrown"

\* C2: the k-th retry of an invocation with base delay D comes after k
\* waits, the k-th of them D * 2^(k-1) ms long; a status fetch of the app
\* that got 504 twice and then COMPLETED has waited 2000 ms and 4000 ms and
\* made three transport calls, and the poller then starts reading results.
C2_WaitsState ==
    /\ Len(exec.waits) = exec.retryCount
    /\ exec.calls > 0 =>
          exec.calls = Len(exec.waits) + (IF exec.state = "backoff" THEN 0 ELSE 1)
    /\ Len(exec.waits) >= 1 => exec.waits[1] = exec.retryDelay
    /\ \A k \in 1..Len(exec.waits) - 1 : exec.waits[k + 1] = 2 * exec.waits[k]
    /\ ( /\ pc = "polling" /\ exec.op = "status" /\ exec.state = "returned"
         /\ Len(exec.failures) = 2 /\ exec.value.status = "COMPLETED" )
          => exec.waits = <<2000, 4000>> /\ exec.calls = 3

C2_PollerSucceeds ==
    ( /\ pc = "polling" /\ exec.state = "returned"
      /\ exec.value.status = "COMPLETED" )
       => (pc' = "fetching" /\ error' = NoError /\ polls' = polls) \/ UNCHANGED vars

C2_BackoffSchedule == []C2_WaitsState /\ [][C2_PollerSucceeds]_vars

C2_Witness ==
    /\ pc = "polling" /\ exec.op = "status" /\ exec.state = "returned"
    /\ exec.value.status = "COMPLETED"
    /\ exec.waits = <<2000, 4000>>

\* C3: a failure that is not a 504 (another status, or no response at all)
\* is the last thing of its invocation: the error is thrown as it is, and no
\* transport call or backoff wait follows it, whatever retries are left.
C3_Only504Retried ==
    \A i \in 1..Len(exec.failures) :
        ~Is504(exec.failures[i]) =>
            /\ i = Len(exec.failures)
            /\ exec.state = "thrown"
            /\ exec.error = exec.failures[i]
            /\ exec.calls = i
            /\ Len(exec.waits) = i - 1

C3_Witness ==
    /\ exec.state = "thrown"
    /\ exec.error.status = 401
    /\ exec.retryCount = 1
    /\ exec.maxRetries = DefaultMaxRetries

\* C4: an invocation whose every call is answered 504 ends thrown after
\* maxRetries + 1 calls and maxRetries waits; handleError logs once, at the
\* throw, and never for a retried 504; the app makes no API call after one
\* of its calls has thrown.
C4_ExhaustionState ==
    /\ Len(exec.handled) = (IF exec.state = "thrown" THEN 1 ELSE 0)
    /\ (\A i \in 1..Len(exec.failures) : Is504(exec.failures[i])) =>
          /\ Len(exec.failures) <= exec.maxRetries + 1
          /\ Len(exec.failures) = exec.maxRetries + 1 => exec.state = "thrown"
          /\ exec.state = "thrown" =>
                /\ exec.calls = exec.maxRetries + 1
                /\ Len(exec.waits) = exec.maxRetries
                /\ exec.handled = <<"Error 504:">>
                /\ Is504(exec.error)

C4_NoRetryByCaller ==
    (exec.state = "thrown" /\ pc # "caller") =>
        /\ exec' = exec
        /\ pc' = "failed"
        /\ polls' = polls /\ fetches' = fetches

C4_Exhaustion == []C4_ExhaustionState /\ [][C4_NoRetryByCaller]_vars

C4_Witness ==
    /\ pc = "failed"
    /\ exec.op = "results"
    /\ exec.calls = DefaultMaxRetries + 1
    /\ \A i \in 1..Len(exec.failures) : Is504(exec.failures[i])

\* C5: a status poll that returns FAILED or CANCELED is the last thing done
\* for the job: the run has failed with the error naming that state, the
\* API call that returned it is the last one made, and no page was fetched.
C5_FailedOrCanceledStops ==
    \A i \in 1..Len(trace) :
        (trace[i].ev = "status" /\ trace[i].tag \in {"FAILED", "CANCELED"}) =>
            /\ i = Len(trace)
            /\ pc = "failed"
            /\ error = JsError("Job " \o trace[i].tag \o ". Unable to retrieve result.")
            /\ exec.op = "status" /\ exec.state = "returned"
            /\ exec.value.status = trace[i].tag
            /\ Len(EventsOf("poll")) = polls
            /\ fetches = <<>> /\ EventsOf("fetch") = <<>>

C5_Witness ==
    /\ pc = "failed"
    /\ status = "CANCELED"
    /\ polls = 2
    /\ category = 2

\* C6: the COMPLETED answer is followed at once by the first page fetch, with
\* no wait and no status poll after it, and every page fetch of a job comes
\* after a COMPLETED answer for that job.
C6_CompletedThenFetch ==
    /\ \A i \in 1..Len(trace) :
          (trace[i].ev = "status" /\ trace[i].tag = "COMPLETED") =>
              /\ i < Len(trace)
              /\ trace[i + 1].ev = "fetch"
              /\ \A j \in i + 1..Len(trace) :
                    trace[j].ev # "poll" /\ trace[j].ev # "status"
                    /\ ~(trace[j].ev = "sleep" /\ trace[j].tag = "poll")
    /\ \A j \in 1..Len(trace) :
          trace[j].ev = "fetch" =>
              \E i \in 1..j - 1 : trace[i].ev = "status" /\ trace[i].tag = "COMPLETED"
    /\ Len(EventsOf("fetch")) = Len(fetches)
    /\ pc \in {"fetching", "pacing"} => status = "COMPLETED"

C6_Witness ==
    /\ pc = "fetching"
    /\ polls = 2
    /\ Len(fetches) = 2

\* C7: a status that is none of COMPLETED, FAILED, CANCELED and RUNNING (a
\* response without a status included) ends the poller: the run has failed
\* with the error naming it, with no wait, poll or fetch after it.
C7_UnknownStatusFails ==
    \A i \in 1..Len(trace) :
        (trace[i].ev = "status" /\ trace[i].tag \notin KnownStatuses) =>
            /\ i = Len(trace)
            /\ pc = "failed"
            /\ error = JsError("Unexpected Job Status: " \o trace[i].tag)
            /\ exec.op = "status" /\ exec.state = "returned"
            /\ Len(EventsOf("poll")) = polls
            /\ fetches = <<>>

C7_Witness ==
    /\ pc = "failed"
    /\ status = "undefined"
    /\ polls = 2
    /\ error.message = "Unexpected Job Status: undefined"

\* C8: the poller counts no polls: whatever the number of polls made, a
\* RUNNING answer is followed by the wait and the wait by one more poll; the
\* poller is left only on an answer other than RUNNING or on a thrown
\* getJobStatus; with a service that answers every request and RUNNING only
\* finitely often, a poller that has started comes to an end.
C8_InPoller == pc \in {"polling", "pollWait"}

C8_PollerState ==
    /\ pc = "pollWait" => status = "RUNNING" /\ exec.state = "returned"
    /\ C8_InPoller => polls = Len(EventsOf("poll")) /\ polls >= 1

C8_PollerStep ==
    /\ (pc = "polling" /\ exec.state = "returned" /\ exec.value.status = "RUNNING")
          => pc' \in {"polling", "pollWait"}
    /\ pc = "pollWait"
          => pc' = "pollWait" \/ (pc' = "polling" /\ polls' = polls + 1)
    /\ (C8_InPoller /\ ~C8_InPoller')
          => /\ pc = "polling"
             /\ \/ exec.state = "returned" /\ exec.value.status # "RUNNING"
                \/ exec.state = "thrown"

C8_UnboundedPolling ==
    /\ []C8_PollerState
    /\ [][C8_PollerStep]_vars
    /\ (C8_InPoller ~> ~C8_InPoller)

C8_Witness ==
    /\ pc = "polling"
    /\ polls = MaxPolls
    /\ exec.state = "returned"
    /\ exec.value.status = "COMPLETED"

\* C9: every page fetch of a job carries the same limit; its offset is the
\* starting offset plus the rows of the pages received before it; the
\* offsets strictly increase from one fetch to the next.
C9_OffsetAdvance ==
    LET pages == EventsOf("page")
    IN  /\ \A i \in 1..Len(fetches) :
              /\ fetches[i].limit = fetches[1].limit
              /\ i - 1 <= Len(pages)
              /\ fetches[i].offset = fetches[1].offset + SumN(pages, i - 1)
        /\ \A i \in 1..Len(fetches) - 1 : fetches[i].offset < fetches[i + 1].offset
        /\ (pc = "fetching" /\ exec.op = "results") =>
              /\ exec.offset = Last(fetches).offset
              /\ exec.limit = Last(fetches).limit
              /\ exec.jobId = jobId

C9_Witness ==
    /\ Len(fetches) = 3
    /\ fetches[2].offset = PageLimit
    /\ fetches[3].offset = PageLimit + 1
    /\ category = 2

\* C10: a page without rows is the last page fetched for the job; against
\* the service's N rows served as [offset, offset + limit), the k-th fetch
\* is made only if more than (k - 2) * limit rows exist, so the fetches of
\* a job number at most N div limit + 2.
C10_StopsAtEmptyPage ==
    LET pages == EventsOf("page")
        N == Len(svcResults[jobId])
    IN  /\ \A i \in 1..Len(pages) :
              pages[i].n = 0 =>
                  /\ i = Len(pages)
                  /\ Len(fetches) = i
                  /\ pc \notin {"fetching", "pacing"}
        /\ fetches # <<>> =>
              /\ jobId \in svcDone
              /\ Len(fetches) >= 2 => (Len(fetches) - 2) * limit < N
              /\ Len(fetches) <= (N \div limit) + 2

C10_Witness ==
    /\ pc = "done"
    /\ Len(fetches) = 3
    /\ Last(EventsOf("page")).n = 0
    /\ Last(EventsOf("page")).tag = "rows"

\* The writeCsvFile calls made for job j, out of a record of calls.
JobFlushes(calls, j) == SelectSeq(calls, LAMBDA f : f.job = j)

RECURSIVE ConcatRows(_, _)
ConcatRows(calls, k) == IF k <= 0 THEN <<>> ELSE ConcatRows(calls, k - 1) \o calls[k].rows

AllRows(calls) == ConcatRows(calls, Len(calls))

\* The step in which the reader of the current job receives the empty page
\* of a service that serves slices, and nothing throws.
ReadingEnds ==
    /\ pc = "fetching" /\ exec.state = "returned"
    /\ exec.value.present /\ exec.value.rows = <<>>
    /\ pc' \in {"creating", "done"}

\* C11: while a job is read, the rows handed to the sink so far followed by
\* the rows still buffered are the first offset rows of the job's result
\* set, in their order; when the reading ends on the empty page of a
\* service serving slices, the rows handed to the sink for the job are its
\* N result rows, in their order.
C11_PrefixState ==
    pc \in {"fetching", "pacing"} =>
        /\ offset <= Len(svcResults[jobId])
        /\ AllRows(JobFlushes(flushes, jobId)) \o rowsToWrite
              = SubSeq(svcResults[jobId], 1, offset)

C11_AllAtEnd ==
    ReadingEnds => AllRows(JobFlushes(flushes', jobId)) = svcResults[jobId]

C11_RowsDelivered == []C11_PrefixState /\ [][C11_AllAtEnd]_vars

C11_Witness ==
    /\ pc = "done"
    /\ jobId \in svcDone
    /\ Len(svcResults[jobId]) = PageLimit + 1
    /\ Len(JobFlushes(flushes, jobId)) = 2
    /\ AllRows(JobFlushes(flushes, jobId)) = svcResults[jobId]
    /\ Last(EventsOf("page")).tag = "rows"

\* The maximal runs of equal (athleteid, sessionid) among the first k rows.
RECURSIVE Runs(_, _)
Runs(rows, k) ==
    IF k <= 0 THEN <<>>
    ELSE CHOOSE r \in {
             IF prev # <<>> /\ prev[Len(prev)].athleteId = rows[k].athleteid
                            /\ prev[Len(prev)].sessionId = rows[k].sessionid
             THEN [prev EXCEPT ![Len(prev)].rows = Append(@, rows[k])]
             ELSE Append(prev, [athleteId |-> rows[k].athleteid,
                                sessionId |-> rows[k].sessionid, rows |-> <<rows[k]>>])
             : prev \in {Runs(rows, k - 1)}} : TRUE

\* writeCsvFile calls as (athleteId, sessionId, rows).
Keyed(calls) ==
    [i \in 1..Len(calls) |-> [athleteId |-> calls[i].athleteId,
                              sessionId |-> calls[i].sessionId, rows |-> calls[i].rows]]

\* The buffer as the run still open.
Pending ==
    IF rowsToWrite = <<>> THEN <<>>
    ELSE <<[athleteId |-> athleteId, sessionId |-> sessionId, rows |-> rowsToWrite]>>

ScenarioRows ==
    MkRows(<< <<"A", "S1">>, <<"A", "S1">>, <<"A", "S1">>,
              <<"A", "S2">>, <<"A", "S2">>, <<"B", "S2">> >>, 0)

ScenarioCalls == Keyed(handleDataExportOver(FreshLocals("job1"), ScenarioRows, PageLimit).flushes)

\* C12: the writeCsvFile calls of a job are, in order, the maximal runs of
\* rows of equal (athleteid, sessionid) of its result set, one call per run
\* with the run's key and all its rows, whatever pages the run lies on:
\* while the job is read, the calls made so far followed by the buffer are
\* the runs of the rows received; rows A/S1 x3, A/S2 x2, B/S2 x1 give the
\* calls (A,S1,3 rows), (A,S2,2 rows), (B,S2,1 row).
C12_RunsState ==
    /\ pc \in {"fetching", "pacing"} =>
          Keyed(JobFlushes(flushes, jobId)) \o Pending = Runs(svcResults[jobId], offset)
    /\ Len(ScenarioCalls) = 3
    /\ ScenarioCalls[1] = [athleteId |-> "A", sessionId |-> "S1",
                           rows |-> SubSeq(ScenarioRows, 1, 3)]
    /\ ScenarioCalls[2] = [athleteId |-> "A", sessionId |-> "S2",
                           rows |-> SubSeq(ScenarioRows, 4, 5)]
    /\ ScenarioCalls[3] = [athleteId |-> "B", sessionId |-> "S2",
                           rows |-> SubSeq(ScenarioRows, 6, 6)]

C12_RunsAtEnd ==
    ReadingEnds =>
        Keyed(JobFlushes(flushes', jobId))
            = Runs(svcResults[jobId], Len(svcResults[jobId]))

C14_HeaderOnlyOnCreate ==
    \A k \in FileKeys :
        \A i \in 1..Len(files[k]) : (files[k][i] = Columns) <=> (i = 1)

\* C15: a createExportJob that throws ends the run: the run has failed with
\* the error thrown, after no status poll, page fetch or writeCsvFile call
\* for that category, and nothing is done after it, no later category
\* submitted.
C15_FailedAtCreate ==
    (pc = "failed" /\ exec.op = "create") =>
        /\ exec.state = "thrown"
        /\ error = exec.error
        /\ jobId = "" /\ polls = 0 /\ fetches = <<>>
        /\ trace = <<SubmitEvent(category)>>
        /\ JobFlushes(flushes, JobIdOf(category)) = <<>>

C15_AbortStep ==
    /\ (pc = "creating" /\ exec.state = "thrown") =>
          /\ pc' = "failed"
          /\ error' = exec.error
          /\ UNCHANGED <<exec, category, histVars, sinkVars>>
    /\ (pc = "failed" /\ exec.op = "create") => UNCHANGED vars

C15_SubmissionFailureAborts == []C15_FailedAtCreate /\ [][C15_AbortStep]_vars

C15_Witness ==
    /\ pc = "failed"
    /\ exec.op = "create"
    /\ error.kind = "http" /\ error.status = 401
    /\ category = 1

\* C16: a poller that fails (FAILED, CANCELED, an unknown status, or a
\* getJobStatus that throws) ends the run: the run has failed, with no page
\* fetch and no writeCsvFile call for that job, and nothing is done after
\* it, no later category submitted.
C16_FailedAtPoll ==
    (pc = "failed" /\ exec.op = "status") =>
        /\ fetches = <<>> /\ EventsOf("fetch") = <<>> /\ EventsOf("flush") = <<>>
        /\ JobFlushes(flushes, jobId) = <<>>
        /\ error # NoError
        /\ \/ exec.state = "thrown" /\ error = exec.error
           \/ exec.state = "returned" /\ exec.value.status \notin {"COMPLETED", "RUNNING"}

C16_PollerFails ==
    /\ pc = "polling"
    /\ \/ exec.state = "thrown"
       \/ exec.state = "returned" /\ exec.value.status \notin {"COMPLETED", "RUNNING"}

C16_AbortStep ==
    /\ C16_PollerFails =>
          /\ pc' = "failed"
          /\ UNCHANGED <<exec, category, polls, fetches, flushes, sinkVars>>
    /\ (pc = "failed" /\ exec.op = "status") => UNCHANGED vars

C16_PollFailureAborts == []C16_FailedAtPoll /\ [][C16_AbortStep]_vars

C16_Witness ==
    /\ pc = "failed"
    /\ exec.op = "status" /\ exec.state = "thrown"
    /\ polls = 2
    /\ category = 1
    /\ error.status = 500

JobIndex(j) == CHOOSE c \in 1..Len(categories) : JobIdOf(c) = j

\* C17: the categories are worked one after the other: the API call in
\* progress and the calls recorded are those of the current category's job,
\* the writeCsvFile calls of the run are grouped by job in the order of the
\* categories, and the next category is submitted only by the step that
\* ends the current one: createExportJob returned no jobId, or the reader
\* received its last page and the buffer, if not empty, was written.
C17_OneJobAtATime ==
    pc # "caller" =>
        /\ exec.jobId \in {"", jobId}
        /\ jobId \in {"", JobIdOf(category)}
        /\ trace[1] = SubmitEvent(category)
        /\ \A i \in 2..Len(trace) :
              /\ trace[i].ev # "submit"
              /\ trace[i].ev \in {"poll", "fetch"} => trace[i].tag = jobId
        /\ \A i \in 1..Len(flushes) :
              /\ JobIndex(flushes[i].job) <= category
              /\ i > 1 => JobIndex(flushes[i - 1].job) <= JobIndex(flushes[i].job)

C17_NextSubmission ==
    category' # category =>
        /\ category' = category + 1
        /\ exec' = createExportJob(DefaultMaxRetries, DefaultRetryDelay)
        /\ exec.state = "returned"
        /\ \/ exec.op = "create" /\ ~Truthy(exec.value.jobId) /\ flushes' = flushes
           \/ /\ exec.op = "results" /\ exec.jobId = jobId
              /\ EndOfRows(exec.value)
              /\ IF rowsToWrite = <<>> THEN flushes' = flushes
                 ELSE flushes' = Append(flushes, [job |-> jobId, athleteId |-> athleteId,
                                                  sessionId |-> sessionId,
                                                  rows |-> rowsToWrite])

C17_Sequential == []C17_OneJobAtATime /\ [][C17_NextSubmission]_vars

C17_Witness ==
    /\ pc = "done"
    /\ JobFlushes(flushes, JobIdOf(1)) # <<>>
    /\ JobFlushes(flushes, JobIdOf(2)) # <<>>
    /\ Len(svcResults[JobIdOf(1)]) = PageLimit

\* C18: the 504 retries of a page fetch stay inside getJobResults: while the
\* fetch is in progress, retried or not, the request is for the same jobId,
\* offset and limit and neither the buffer nor the sink changes; when it
\* returns, after any number of retries, the reader does with the page what
\* it does with that page fetched at the first attempt, its rows entering
\* the buffer once.
C18_SameRequest ==
    (pc = "fetching" /\ exec.state # "idle") =>
        /\ exec.op = "results"
        /\ exec.jobId = jobId /\ exec.offset = offset /\ exec.limit = limit
        /\ exec.state = "returned" /\ exec.value.present
              => exec.value.rows = PageOf(jobId, offset, limit)

C18_RetryStep ==
    /\ (pc = "fetching" /\ exec.state \in {"request", "backoff"}) =>
          /\ pc' = "fetching"
          /\ UNCHANGED <<offset, limit, athleteId, sessionId, rowsToWrite,
                         sinkVars, polls, fetches, flushes, trace>>
    /\ (pc = "fetching" /\ exec.state = "returned" /\ pc' = "pacing") =>
          \E p \in {handleDataExportPage(Locals(NoFault), PageOf(jobId, offset, limit))} :
              /\ rowsToWrite' = p.rowsToWrite
              /\ flushes' = p.flushes
              /\ files' = p.files
              /\ offset' = p.offset
              /\ AllRows(JobFlushes(flushes', jobId)) \o rowsToWrite'
                    = SubSeq(svcResults[jobId], 1, offset')

C18_RetryBeforePartitioner == []C18_SameRequest /\ [][C18_RetryStep]_vars

C18_Witness ==
    /\ pc = "pacing"
    /\ exec.op = "results" /\ exec.retryCount = 2
    /\ Len(fetches) = 2
    /\ offset = PageLimit + 1
    /\ AllRows(JobFlushes(flushes, jobId)) \o rowsToWrite = svcResults[jobId]

\* The run of C19 at the model's scale: status polls RUNNING, RUNNING,
\* COMPLETED, and a result set of one full page and one short page
\* (PageLimit + 1 rows for 637 = 500 + 137) served as slices.
C19_Scenario ==
    /\ pc \in {"fetching", "pacing", "done"}
    /\ jobId \in svcDone
    /\ polls = 3
    /\ Len(svcResults[jobId]) = PageLimit + 1
    /\ \A i \in 1..Len(trace) : trace[i].ev = "page" => trace[i].tag = "rows"

\* C19: in that run the reader makes exactly two page fetches, at offset 0
\* and at offset PageLimit (0 and 500), all rows are handed to the sink, and
\* the final flush follows the second page.  (Refuted: the second page has
\* rows, so the loop fetches a third page, at offset 637, and the final
\* flush follows that empty page.)
C19_TwoFetches ==
    C19_Scenario =>
        /\ Len(fetches) <= 2
        /\ \A i \in 1..Len(fetches) : fetches[i].offset = (i - 1) * PageLimit
        /\ pc = "done" =>
              /\ Len(fetches) = 2
              /\ AllRows(JobFlushes(flushes, jobId)) = svcResults[jobId]

\* C19 as the code has it: in that run the reader makes three page fetches,
\* at offsets 0, PageLimit and PageLimit + 1 (0, 500 and 637); the third
\* page has no rows and ends the reading; all rows are handed to the sink,
\* the final flush following the third, empty page.
C19_ThreeFetchesState ==
    C19_Scenario =>
        /\ Len(fetches) <= 3
        /\ \A i \in 1..Len(fetches) :
              fetches[i].offset = (IF i = 3 THEN PageLimit + 1 ELSE (i - 1) * PageLimit)
        /\ pc = "done" =>
              /\ Len(fetches) = 3
              /\ AllRows(JobFlushes(flushes, jobId)) = svcResults[jobId]
              /\ Last(trace).ev = "flush"
              /\ trace[Len(trace) - 1] = Event("page", "rows", 0)
              /\ Len(EventsOf("page")) = 3

C19_ThreeFetchesStep ==
    (C19_Scenario /\ pc # "done" /\ exec.value.present /\ pc' \in {"creating", "done"}) =>
        /\ Len(fetches) = 3
        /\ exec.value.rows = <<>>
        /\ Len(flushes') = Len(flushes) + 1
        /\ AllRows(JobFlushes(flushes', jobId)) = svcResults[jobId]

C19_ThreeFetches == []C19_ThreeFetchesState /\ [][C19_ThreeFetchesStep]_vars

C19_Witness ==
    /\ C19_Scenario
    /\ pc = "done"
    /\ Len(fetches) = 3
    /\ Len(JobFlushes(flushes, jobId)) = 1
    /\ Last(trace).n = PageLimit + 1

\* C20: a job whose first page has no rows is done with that one fetch: the
\* step that receives the page makes no writeCsvFile call, changes no file,
\* awaits no pause and raises no error, and goes on to the next category
\* (or ends the run after the last one).
C20_EmptyFirstPage ==
    /\ pc = "fetching" /\ exec.state = "returned"
    /\ Len(fetches) = 1
    /\ exec.value.present /\ exec.value.rows = <<>>

C20_AfterEmptyFirstPage ==
    (pc = "done" /\ EventsOf("page") = <<Event("page", "rows", 0)>>) =>
        /\ Len(fetches) = 1 /\ fetches[1].offset = 0
        /\ EventsOf("flush") = <<>>
        /\ JobFlushes(flushes, jobId) = <<>>
        /\ \A i \in 1..Len(trace) : ~(trace[i].ev = "sleep" /\ trace[i].tag = "pace")
        /\ Last(trace) = Event("page", "rows", 0)
        /\ error = NoError

C20_EmptyFirstPageStep ==
    C20_EmptyFirstPage =>
        /\ UNCHANGED <<flushes, sinkVars, error, offset, rowsToWrite>>
        /\ error = NoError
        /\ IF category < Len(categories)
           THEN /\ pc' = "creating"
                /\ category' = category + 1
                /\ exec' = createExportJob(DefaultMaxRetries, DefaultRetryDelay)
           ELSE /\ pc' = "done"
                /\ fetches' = fetches
                /\ trace' = Append(trace, Event("page", "rows", 0))

C20_EmptyResult == []C20_AfterEmptyFirstPage /\ [][C20_EmptyFirstPageStep]_vars

C20_Witness ==
    /\ pc = "done"
    /\ jobId \in svcDone
    /\ svcResults[jobId] = <<>>
    /\ Len(fetches) = 1
    /\ Last(trace) = Event("page", "rows", 0)
    /\ polls = 2

\* C21: a getJobStatus or getJobResults invocation given a missing jobId has
\* returned at once: no transport call, no backoff wait, the problem logged,
\* no value returned and nothing thrown; such an invocation is the only one
\* that logs a missing jobId.
C21_MissingJobId ==
    /\ (exec.op \in {"status", "results"} /\ ~Truthy(exec.jobId)) =>
          /\ exec.state = "returned"
          /\ exec.calls = 0 /\ exec.retryCount = 0
          /\ exec.waits = <<>> /\ exec.failures = <<>> /\ exec.handled = <<>>
          /\ exec.reported
          /\ exec.value = NoValue
          /\ exec.error = NoError
    /\ exec.reported => exec.op \in {"status", "results"} /\ ~Truthy(exec.jobId)

C21_Witness ==
    /\ pc = "caller"
    /\ exec.op = "results"
    /\ exec.jobId = ""
    /\ exec.state = "returned"
    /\ exec.maxRetries = DefaultMaxRetries

IsPollWait(e) == e.ev = "sleep" /\ e.tag = "poll"

\* C22: in the history of a job every RUNNING answer is followed at once by
\* one wait of 5000 ms, whatever the number of polls made, and that wait by
\* the next poll; the poller waits nowhere else: every wait of the poller
\* comes directly after a RUNNING answer.
C22_FixedInterval ==
    /\ \A i \in 1..Len(trace) :
          (trace[i].ev = "status" /\ trace[i].tag = "RUNNING") =>
              /\ i < Len(trace)
              /\ trace[i + 1] = Event("sleep", "poll", 5000)
    /\ \A i \in 1..Len(trace) :
          IsPollWait(trace[i]) =>
              /\ trace[i].n = 5000
              /\ i > 1 /\ trace[i - 1] = Event("status", "RUNNING", 0)
              /\ i < Len(trace) => trace[i + 1].ev = "poll"
    /\ pc = "pollWait" <=> (trace # <<>> /\ IsPollWait(Last(trace)))
    /\ C8_InPoller =>
          Len(SelectSeq(trace, IsPollWait))
             = polls - (IF pc = "polling" THEN 1 ELSE 0)

C22_Witness ==
    /\ pc = "polling"
    /\ polls = 3
    /\ Len(SelectSeq(trace, IsPollWait)) = 2
    /\ exec.state = "request"

\* C23: the step that receives the page ending a job's row stream makes one
\* writeCsvFile call with the whole buffer, keyed by the key of its last
\* row, if the buffer is not empty, and none if it is empty; writeCsvFile
\* calls are made only for the job being read, so none follows for that
\* job, and none at all once the run is done.
C23_StreamEnds ==
    /\ pc = "fetching" /\ exec.state = "returned"
    /\ EndOfRows(exec.value)

C23_FinalFlushStep ==
    /\ C23_StreamEnds =>
          IF rowsToWrite = <<>>
          THEN flushes' = flushes /\ UNCHANGED sinkVars
          ELSE /\ flushes' = Append(flushes, [job |-> jobId, athleteId |-> athleteId,
                                              sessionId |-> sessionId,
                                              rows |-> rowsToWrite])
               /\ athleteId = Last(rowsToWrite).athleteid
               /\ sessionId = Last(rowsToWrite).sessionid
               /\ pc' # "failed" =>
                     files' = [files EXCEPT ![<<athleteId, sessionId>>]
                                               = @ \o stringify(rowsToWrite)]
    /\ flushes' # flushes =>
          /\ pc = "fetching" /\ pc' # "fetching"
          /\ Len(flushes') > Len(flushes)
          /\ SubSeq(flushes', 1, Len(flushes)) = flushes
          /\ \A i \in Len(flushes) + 1..Len(flushes') : flushes'[i].job = jobId
    /\ (pc # "fetching" \/ exec.state # "returned") => UNCHANGED sinkVars
    /\ pc = "done" => UNCHANGED vars

C23_FinalFlushState ==
    pc # "caller" /\ pc # "fetching" /\ pc # "pacing" =>
        \A i \in 1..Len(flushes) :
            flushes[i].job = jobId => pc \in {"done", "failed"}

C23_FinalFlush == []C23_FinalFlushState /\ [][C23_FinalFlushStep]_vars

C23_Witness ==
    /\ pc = "done"
    /\ Len(trace) > 2
    /\ Last(trace) = Event("flush", athleteId, PageLimit)
    /\ trace[Len(trace) - 1] = Event("page", "rows", 0)
    /\ Len(flushes) = 1

\* C24: every API call starts with retryCount = 0 and no backoff behind it,
\* whatever the retryCount the call before it ended with; a 504 answer ends
\* a call only when that call itself has retried maxRetries times.  The 504
\* answers retried for one job, earlier504 + exec.retryCount for two
\* consecutive calls alone, therefore exceed maxRetries (witness).
C24_NewInvocation == Settled /\ exec' # exec

C24_CounterStep ==
    /\ C24_NewInvocation =>
          /\ exec'.retryCount = 0
          /\ exec'.waits = <<>> /\ exec'.failures = <<>>
          /\ exec'.calls <= 1
          /\ pc # "caller" => exec'.maxRetries = DefaultMaxRetries
          /\ pc' \in {"polling", "fetching"} =>
                earlier504' = exec.retryCount /\ exec'.jobId = jobId'
    /\ (exec.state = "request" /\ exec'.state = "thrown" /\ Is504(exec'.error)) =>
          exec.retryCount = exec.maxRetries
    /\ (exec.state = "request" /\ exec'.state = "backoff") =>
          /\ exec'.retryCount = exec.retryCount + 1
          /\ exec.retryCount < exec.maxRetries
          /\ earlier504' = earlier504

C24_CounterState ==
    /\ exec.retryCount = Len(exec.waits)
    /\ exec.retryCount <= exec.maxRetries
    /\ earlier504 \in 0..DefaultMaxRetries
    /\ earlier504 > 0 => pc \in {"polling", "fetching"} /\ exec.state \in {"request", "backoff"}

C24_LocalCounter == []C24_CounterState /\ [][C24_CounterStep]_vars

C24_Witness ==
    /\ pc = "fetching" /\ Len(fetches) = 2
    /\ earlier504 = DefaultMaxRetries
    /\ exec.state = "request" /\ exec.retryCount = DefaultMaxRetries
    /\ earlier504 + exec.retryCount > exec.maxRetries

\* C25: when a getJobResult call of handleDataExport is rejected, the next
\* step ends the run with the error handleDataExport throws: no call is
\* issued after the rejected one (no fetch, no createExportJob of a later
\* category), and the failed run takes no further step.
C25_FetchFailed == pc = "fetching" /\ exec.state = "thrown"

C25_AbortStep ==
    /\ C25_FetchFailed =>
          /\ pc' = "failed"
          /\ error' = ExportFailed
          /\ UNCHANGED <<exec, category, jobId, fetches, polls, trace>>
    /\ pc = "failed" => UNCHANGED vars

C25_AbortState ==
    (pc = "failed" /\ exec.op = "results") =>
        /\ error = ExportFailed
        /\ Settled
        /\ fetches # <<>> /\ Last(fetches).offset = exec.offset
        /\ Last(trace).ev \in {"fetch", "page", "flush"}
        /\ exec.state = "thrown" => Last(trace) = Event("fetch", jobId, exec.offset)

C25_FetchFailureAborts == []C25_AbortState /\ [][C25_AbortStep]_vars

C25_Witness ==
    /\ pc = "failed" /\ exec.op = "results" /\ exec.state = "thrown"
    /\ category = 1 /\ category < Len(categories)
    /\ Len(fetches) = 2
    /\ error = ExportFailed

IsPace(e) == e.ev = "sleep" /\ e.tag = "pace"

IsRowsPage(e) == e.ev = "page" /\ e.n > 0

\* C26: the timers the run awaits are the backoff timer of an API call, the
\* 5000 ms timer of the poller and the 1000 ms timer of the reader, one at
\* a time; everywhere else the run awaits the answer to a request or is
\* over.  In the reading of a job each page with rows is followed, once its
\* rows are processed, by one 1000 ms wait and then by the next fetch; each
\* fetch but the first follows such a wait; no wait follows an empty page.
C26_SuspensionState ==
    /\ \A i \in 1..Len(trace) : trace[i].ev = "sleep" =>
          trace[i] \in {Event("sleep", "poll", 5000), Event("sleep", "pace", 1000)}
    /\ \A i \in 1..Len(trace) : IsPace(trace[i]) =>
          /\ \E j \in 1..i - 1 :
                /\ IsRowsPage(trace[j])
                /\ \A k \in j + 1..i - 1 : trace[k].ev = "flush"
          /\ i < Len(trace) => trace[i + 1].ev = "fetch"
    /\ \A i \in 1..Len(trace) : IsRowsPage(trace[i]) =>
          \/ \E j \in i + 1..Len(trace) :
                /\ IsPace(trace[j])
                /\ \A k \in i + 1..j - 1 : trace[k].ev = "flush"
          \/ /\ pc = "failed" /\ error = ExportFailed /\ exec.state = "returned"
             /\ \A k \in i + 1..Len(trace) : trace[k].ev = "flush"
    /\ \A i \in 1..Len(trace) : (trace[i].ev = "page" /\ trace[i].n = 0) =>
          \A k \in i + 1..Len(trace) : trace[k].ev = "flush"
    /\ \A i \in 1..Len(trace) : trace[i].ev = "fetch" =>
          /\ i > 1
          /\ IF trace[i].n = 0 /\ Len(SelectSeq(SubSeq(trace, 1, i), LAMBDA e : e.ev = "fetch")) = 1
             THEN trace[i - 1].ev = "status"
             ELSE IsPace(trace[i - 1])
    /\ pc = "pacing" <=> (trace # <<>> /\ IsPace(Last(trace)))
    /\ pc \in {"pollWait", "pacing"} => exec.state = "returned"
    /\ exec.state = "backoff" => pc \in {"caller", "creating", "polling", "fetching"}
    /\ pc \in {"creating", "polling", "fetching"} =>
          exec.state \in {"request", "backoff", "returned", "thrown"}
    /\ pc = "fetching" => Len(SelectSeq(trace, IsPace)) = Len(fetches) - 1

C26_SuspensionStep ==
    /\ exec.state = "backoff" =>
          /\ exec' = [exec EXCEPT !.state = "request", !.calls = @ + 1]
          /\ UNCHANGED <<appVars, sinkVars, svcVars, histVars>>
    /\ pc = "pacing" => pc' = "fetching" /\ Last(trace') = Event("fetch", jobId, offset)

C26_Suspension == []C26_SuspensionState /\ [][C26_SuspensionStep]_vars

C26_Witness ==
    /\ pc = "done"
    /\ Len(SelectSeq(trace, IsPace)) = 2
    /\ Len(SelectSeq(trace, IsRowsPage)) = 2
    /\ Last(trace).ev = "flush"

RowsOf(j) == {svcResults[j][i] : i \in 1..Len(svcResults[j])}

\* C27: the step that starts the reading of a job's results sets offset to
\* 0, limit to the page size, the current key to null and the buffer to
\* empty, whatever they were, and asks for the page at offset 0; the rows
\* buffered and the rows of every writeCsvFile call are rows of one job,
\* the job being read when they were buffered or written.
C27_ReadingStarts == pc = "polling" /\ pc' = "fetching"

C27_FreshStep ==
    C27_ReadingStarts =>
        /\ offset' = 0 /\ limit' = PageLimit
        /\ athleteId' = "null" /\ sessionId' = "null"
        /\ rowsToWrite' = <<>>
        /\ exec'.op = "results" /\ exec'.jobId = jobId /\ exec'.offset = 0
        /\ exec'.limit = PageLimit
        /\ fetches' = <<[offset |-> 0, limit |-> PageLimit]>>
        /\ flushes' = flushes

C27_PerJobState ==
    /\ \A i \in 1..Len(flushes) :
          /\ flushes[i].job \in svcDone
          /\ \A k \in 1..Len(flushes[i].rows) : flushes[i].rows[k] \in RowsOf(flushes[i].job)
          /\ \A j \in JobIds \ {flushes[i].job} :
                \A k \in 1..Len(flushes[i].rows) : flushes[i].rows[k] \notin RowsOf(j)
    /\ pc \in {"fetching", "pacing"} =>
          \A k \in 1..Len(rowsToWrite) : rowsToWrite[k] \in RowsOf(jobId)
    /\ (pc = "fetching" /\ Len(fetches) = 1 /\ exec.state \in {"request", "backoff"}) =>
          offset = 0 /\ limit = PageLimit /\ rowsToWrite = <<>>
             /\ athleteId = "null" /\ sessionId = "null"

C27_PerJob == []C27_PerJobState /\ [][C27_FreshStep]_vars

\* The second job is read, and its rows written, after the first job left a
\* buffer with rows and an offset above 0.
C27_Witness ==
    /\ pc = "done"
    /\ \E i \in 1..Len(flushes) : flushes[i].job = JobIdOf(1)
    /\ \E i \in 1..Len(flushes) : flushes[i].job = JobIdOf(2)

OneKey(p) ==
    \A k \in 1..Len(p.rowsToWrite) :
        /\ p.rowsToWrite[k].athleteid = p.athleteId
        /\ p.rowsToWrite[k].sessionid = p.sessionId

InSink(f, row) == \E key \in FileKeys : \E i \in 1..Len(f[key]) : f[key][i] = CsvLine(row)

IsPrefix(a, b) == Len(a) <= Len(b) /\ SubSeq(b, 1, Len(a)) = a

\* C29: when the reading of a job fails, on a rejected getJobResult or on
\* a writeCsvFile call that throws, the rows in the buffer are in no file
\* and the run is over, so they never will be: the failing step makes no
\* writeCsvFile call after the failure (none at all on a rejected fetch),
\* and what the earlier calls wrote is still in the files.
C29_ErrorPathStep ==
    /\ (pc = "fetching" /\ pc' = "failed") =>
          /\ exec.state = "thrown" => UNCHANGED <<rowsToWrite, flushes, sinkVars>>
          /\ \A key \in FileKeys : IsPrefix(files[key], files'[key])
          /\ IsPrefix(flushes, flushes')
          /\ flushes' # flushes => Last(flushes').rows = rowsToWrite'
          /\ \A k \in 1..Len(rowsToWrite') : ~InSink(files', rowsToWrite'[k])
    /\ pc = "failed" => UNCHANGED <<rowsToWrite, flushes, sinkVars>>

C29_ErrorPathState ==
    /\ (pc = "failed" /\ exec.op = "results") =>
          \A k \in 1..Len(rowsToWrite) : ~InSink(files, rowsToWrite[k])
    /\ pc \in {"fetching", "pacing"} =>
          \A k \in 1..Len(rowsToWrite) : ~InSink(files, rowsToWrite[k])

C29_BufferLost == []C29_ErrorPathState /\ [][C29_ErrorPathStep]_vars

C29_Witness ==
    /\ pc = "failed" /\ exec.op = "results" /\ exec.state = "thrown"
    /\ rowsToWrite # <<>>
    /\ Len(flushes) = 1
    /\ InSink(files, flushes[1].rows[1])
    /\ ~InSink(files, rowsToWrite[1])

\* C30: when createExportJob returns without a jobId, the next step of the
\* run is the createExportJob of the next category, or the end of the run
\* after the last one: no getJobStatus or getJobResult call is issued for
\* the request, no writeCsvFile call is made and no error is raised.
C30_NoJobId ==
    pc = "creating" /\ exec.state = "returned" /\ ~Truthy(exec.value.jobId)

C30_SkipStep ==
    C30_NoJobId =>
        /\ IF category < Len(categories)
           THEN /\ pc' = "creating" /\ category' = category + 1
                /\ exec' = createExportJob(DefaultMaxRetries, DefaultRetryDelay)
                /\ trace' = <<SubmitEvent(category + 1)>>
           ELSE /\ pc' = "done" /\ category' = category
                /\ exec' = exec /\ trace' = trace
        /\ polls' = 0 /\ fetches' = <<>>
        /\ error' = NoError
        /\ UNCHANGED <<flushes, sinkVars, svcVars>>

C30_SkipState ==
    pc = "creating" =>
        /\ polls = 0 /\ fetches = <<>> /\ jobId = ""
        /\ trace = <<SubmitEvent(category)>>
        /\ error = NoError
        /\ \A i \in 1..Len(flushes) : flushes[i].job # JobIdOf(category)

C30_MissingJobIdSkips == []C30_SkipState /\ [][C30_SkipStep]_vars

\* The first request got no jobId and the second one is being polled.
C30_Witness ==
    /\ category = 2 /\ pc = "polling" /\ jobId = JobIdOf(2)
    /\ JobIdOf(1) \notin svcDone
    /\ flushes = <<>> /\ error = NoError

\* C31: every writeCsvFile call of the run carries at least one row, the
\* calls of the step being taken included, and writeCsvFile never fails on
\* Object.keys(rows[0]) of an empty list.
C31_FlushesOf(p) == p.flushes

C31_NonEmptyState ==
    /\ \A i \in 1..Len(flushes) : Len(flushes[i].rows) >= 1
    /\ \A i \in 1..Len(trace) : trace[i].ev = "flush" => trace[i].n >= 1
    /\ (pc = "fetching" /\ exec.state = "returned") =>
          \A fault \in FaultsFor(2) :
              \A p \in {IF EndOfRows(exec.value)
                        THEN handleDataExportEnd(Locals(fault))
                        ELSE handleDataExportPage(Locals(fault), exec.value.rows)} :
                  /\ \A i \in 1..Len(C31_FlushesOf(p)) : Len(C31_FlushesOf(p)[i].rows) >= 1
                  /\ p.thrown # "Cannot convert undefined or null to object"

C31_NonEmptyStep ==
    flushes' # flushes =>
        \A i \in Len(flushes) + 1..Len(flushes') :
            /\ flushes'[i].rows # <<>>
            /\ Truthy(flushes'[i].athleteId) /\ Truthy(flushes'[i].sessionId)

C31_NonEmptyWrites == []C31_NonEmptyState /\ [][C31_NonEmptyStep]_vars

\* Athlete and session change on one row: the athlete test has written and
\* cleared the buffer when the session test finds it empty.
C31_Witness ==
    /\ pc = "pacing"
    /\ Len(flushes) = 1
    /\ flushes[1].job = jobId
    /\ flushes[1].athleteId = "A" /\ flushes[1].sessionId = "S1"
    /\ athleteId = "B" /\ sessionId = "S2"
    /\ Len(rowsToWrite) = 1

\* C32: in dataExportDemo.js a status FAILED, CANCELED or unexpected, a
\* rejected getJobStatus and a rejected getJobResult raise no error: the
\* next step is the createExportJob of the next category, or the end of the
\* script after the last one, with no further call for the category.  The
\* script fails only on a rejected createExportJob.
C32_ReadFailure ==
    \/ /\ pc = "demoPolling" /\ exec.state = "thrown"
    \/ /\ pc = "demoPolling" /\ exec.state = "returned"
       /\ exec.value.status \notin {"COMPLETED", "RUNNING"}
    \/ /\ pc = "demoFetching" /\ exec.state = "thrown"

C32_SwallowStep ==
    /\ C32_ReadFailure =>
          /\ error' = NoError
          /\ IF category < Len(categories)
             THEN /\ pc' = "demoCreating" /\ category' = category + 1
                  /\ exec' = demoCreateExportJob
                  /\ offset' = 0 /\ jobId' = ""
                  /\ polls' = 0 /\ fetches' = <<>>
             ELSE /\ pc' = "demoDone"
                  /\ UNCHANGED <<exec, category, polls, fetches>>
    /\ (pc = "demoCreating" /\ exec.state = "thrown") =>
          pc' = "demoFailed" /\ error' = exec.error /\ UNCHANGED <<exec, category>>
    /\ pc \in {"demoFailed", "demoDone"} => UNCHANGED vars

C32_SwallowState ==
    /\ pc = "demoFailed" <=> error # NoError
    /\ pc = "demoFailed" =>
          exec.op = "demoCreate" /\ exec.state = "thrown" /\ error = exec.error
    /\ exec.state = "thrown" => exec.calls = 1 /\ exec.retryCount = 0 /\ exec.waits = <<>>

C32_DemoSwallows == []C32_SwallowState /\ [][C32_SwallowStep]_vars

\* The script has ended without an error after the getJobResult call of the
\* second page of the last category was rejected.
C32_Witness ==
    /\ pc = "demoDone" /\ error = NoError
    /\ category = Len(categories)
    /\ exec.op = "demoResult" /\ exec.state = "thrown"
    /\ Len(fetches) = 2

\* C33: in dataExportDemo.js the getJobResult call of a getExportData call
\* is its last call and comes directly after a getJobStatus call for the
\* same job that returned COMPLETED; after a page with rows the next call is
\* a getJobStatus call again, so a job is polled at least once per page.
C33_PollBeforePageState ==
    /\ \A i \in 1..Len(demoTrace) : demoTrace[i].ev = "fetch" =>
          /\ i >= 3 /\ i = Len(demoTrace)
          /\ demoTrace[i - 1] = Event("status", "COMPLETED", 0)
          /\ demoTrace[i - 2].ev = "poll"
          /\ demoTrace[i - 2].tag = jobId /\ demoTrace[i].tag = jobId
    /\ \A i \in 1..Len(demoTrace) :
          (demoTrace[i].ev = "status" /\ demoTrace[i].tag # "COMPLETED") =>
              \A k \in i + 1..Len(demoTrace) : demoTrace[k].ev # "fetch"
                  \/ \E m \in i + 1..k - 1 : demoTrace[m] = Event("status", "COMPLETED", 0)
    /\ pc = "demoFetching" => (demoTrace # <<>> /\ Last(demoTrace).ev = "fetch")
    /\ (demoTrace # <<>> /\ Last(demoTrace).ev = "fetch") => pc \in {"demoFetching", "demoDone"}
    /\ pc = "demoFetching" =>
          /\ status = "COMPLETED"
          /\ exec.op = "demoResult" /\ exec.jobId = jobId
          /\ exec.offset = offset /\ exec.limit = limit
    /\ polls >= Len(fetches)

C33_PollBeforePageStep ==
    /\ (exec'.op = "demoResult" /\ exec' # exec /\ exec.op # "demoResult") =>
          /\ exec.op = "demoStatus" /\ exec.state = "returned"
          /\ exec.value.status = "COMPLETED"
          /\ exec.jobId = exec'.jobId
          /\ fetches' = Append(fetches, [offset |-> offset, limit |-> limit])
          /\ polls' = polls
    /\ (exec.op = "demoResult" /\ exec.state = "returned" /\ exec'.op # "demoResult") =>
          \/ exec'.op = "demoCreate"
          \/ /\ exec'.op = "demoStatus" /\ exec'.jobId = jobId
             /\ exec.value.present /\ exec.value.rows # <<>>
             /\ polls' = polls + 1 /\ fetches' = fetches

C33_PollBeforePage == []C33_PollBeforePageState /\ [][C33_PollBeforePageStep]_vars

C33_Witness ==
    /\ pc = "demoFetching" /\ exec.state = "request"
    /\ Len(fetches) = 2 /\ polls = 3
    /\ demoTrace = <<Event("poll", jobId, 3), Event("status", "COMPLETED", 0),
                     Event("fetch", jobId, PageLimit)>>

C34_Thrown(fault) ==
    writeCsvFile([dirs |-> dirs, files |-> files, thrown |-> "none"],
                 rowsToWrite, athleteId, sessionId, fault).thrown

\* C34: writeCsvFile called with the rows buffered throws, when the append
\* fails, the error made for the append ("Failed to write to CSV file:" and
\* the cause) and, when the conversion fails, the error made for the
\* conversion ("Failed to stringify rows for CSV:" and the cause).
\* (Refuted: the throw of the inner catch is inside the outer try, whose
\* catch wraps it as a conversion failure.)
C34_ErrorClasses ==
    (pc \in {"fetching", "pacing"} /\ rowsToWrite # <<>>) =>
        /\ C34_Thrown("append") = "Failed to write to CSV file: EIO"
        /\ C34_Thrown("stringify") = "Failed to stringify rows for CSV: Invalid record"
        /\ C34_Thrown("none") = "none"

====
